---- MODULE Spec2Model ----
(***************************************************************************)
(* Model of scholarmine's batch engine: CSVResearcherRunner (runner.py),   *)
(* its worker threads and coordinator loop, the progress checkpoint        *)
(* (scraping_progress.json) and the IPTracker usage ledger (ip_tracker.py).*)
(* The scraper and Tor are external collaborators: a scrape attempt        *)
(* succeeds or fails nondeterministically (in SpecRaise it may also raise).*)
(* The Tor exit address is one                                             *)
(* process-wide value that any NEWNYM request of any thread may change     *)
(* (runner.py 487, 625; scraper.py 57, 218), so a read of it               *)
(* (get_current_ip) returns any address, or "Errored IP" when it fails.    *)
(*                                                                         *)
(* Specifications: Spec (a fresh or resumed run that no signal interrupts),*)
(* SpecFresh, SpecResume, SpecSignal (a fresh run that SIGINT or SIGTERM   *)
(* may interrupt), SpecRaise (a fresh run whose attempts may raise an      *)
(* exception), SpecStartup (a fresh run from the start of Tor in the       *)
(* constructor on), SpecGate (a fresh run with the gate of an attempt      *)
(* followed step by step), SpecRetry (a fresh run whose identity requests  *)
(* before retries succeed or raise), SpecLive (a fresh run under weak      *)
(* fairness of the threads, its joins not timing out), SpecCheckpoint (a     *)
(* fresh run with the calls of update_researcher_status followed step by    *)
(* step under progress_lock), SpecLocks (the threads as far as their locks   *)
(* and waits go), SpecBackoff (the gate of the first attempts of  *)
(* a run resumed on a used-up ledger), SpecParse (parse_author_profile     *)
(* alone), SpecLedger (the IPTracker alone, its calls followed step by     *)
(* step under concurrent callers) and SpecLedgerReload (the same           *)
(* with load_existing_data called on the live ledger).  In the runner      *)
(* specifications a ledger call is one step.                               *)
(***************************************************************************)
EXTENDS Integers, Sequences, FiniteSets, TLC

(* ---------------- bounds and configuration ---------------- *)

\* number of rows of the CSV file (researchers with a valid Scholar ID)
NumResearchers == 2
\* max_threads given to the runner
max_threads == 2
\* max_retries given to the runner
max_retries == 2
\* max_requests_per_ip given to the runner
max_requests_per_ip == 1
\* number of distinct Tor exit addresses
NumIPs == 2
\* how many writes of a file (checkpoint or ledger) may fail in one run
MaxWriteFailures == 1
\* cap on ip_retry_attempt (the gate loop of the code is unbounded)
MaxIpRetry == 1
\* forced rotations of one attempt that SpecBackoff follows
MaxForced == 7
\* log_successful_scrape calls with an address that the callers of the
\* ledger make in SpecLedger
MaxLogCalls == 3

AllNames == <<"A", "B", "C", "D">>
AllIPs == <<"1.1.1.1", "2.2.2.2", "3.3.3.3", "4.4.4.4">>

\* read_csv_file: the dict of researcher names, in file order
csv_names == SubSeq(AllNames, 1, NumResearchers)
Researchers == {csv_names[i] : i \in 1..NumResearchers}
IPs == {AllIPs[i] : i \in 1..NumIPs}
Threads == 1..max_threads

ErroredIP == "Errored IP"
NoIP == "none"
NoName == "none"
StatusLists == <<"pending", "success", "failed_retrying", "failed_exhausted">>

(* ---------------- sequences as Python lists ---------------- *)

Range(s) == {s[i] : i \in 1..Len(s)}

\* list.remove(x): drops the first occurrence
RECURSIVE ListRemove(_, _)
ListRemove(s, x) ==
    IF s = <<>> THEN <<>>
    ELSE IF Head(s) = x THEN Tail(s)
    ELSE <<Head(s)>> \o ListRemove(Tail(s), x)

\* [x for x in s if x not in drop]
RECURSIVE FilterOut(_, _)
FilterOut(s, drop) ==
    IF s = <<>> THEN <<>>
    ELSE IF Head(s) \in drop THEN FilterOut(Tail(s), drop)
    ELSE <<Head(s)>> \o FilterOut(Tail(s), drop)

\* the names of want, in the order of s
RECURSIVE KeepOnly(_, _)
KeepOnly(s, want) ==
    IF s = <<>> THEN <<>>
    ELSE IF Head(s) \in want THEN <<Head(s)>> \o KeepOnly(Tail(s), want)
    ELSE KeepOnly(Tail(s), want)

(* ---------------- the progress checkpoint ---------------- *)

CountsOf(pd) ==
    [pending |-> Len(pd.pending), success |-> Len(pd.success),
     failed_retrying |-> Len(pd.failed_retrying),
     failed_exhausted |-> Len(pd.failed_exhausted)]

\* _create_empty_progress_data (a missing failed_exhausted key reads as [])
CreateEmptyProgressData ==
    [total_researchers |-> 0, pending |-> <<>>, success |-> <<>>,
     failed_retrying |-> <<>>, failed_exhausted |-> <<>>,
     counts |-> [pending |-> 0, success |-> 0, failed_retrying |-> 0,
                 failed_exhausted |-> 0]]

\* initialize_progress_tracking: the data it builds
InitializedProgress(researcher_names) ==
    [total_researchers |-> Len(researcher_names), pending |-> researcher_names,
     success |-> <<>>, failed_retrying |-> <<>>, failed_exhausted |-> <<>>,
     counts |-> [pending |-> Len(researcher_names), success |-> 0,
                 failed_retrying |-> 0, failed_exhausted |-> 0]]

\* a faulty update that leaves the name in the list it was in
UpdatedProgressNoRemove(pd, researcher_name, new_status) ==
    LET added == [pd EXCEPT ![new_status] = Append(@, researcher_name)]
    IN  [added EXCEPT !.counts = CountsOf(added)]

\* a faulty update that empties the list of the exhausted names first
UpdatedProgressDropsExhausted(pd, researcher_name, new_status) ==
    LET removed == [pd EXCEPT
                      !.pending = ListRemove(@, researcher_name),
                      !.success = ListRemove(@, researcher_name),
                      !.failed_retrying = ListRemove(@, researcher_name),
                      !.failed_exhausted = <<>>]
        added == [removed EXCEPT ![new_status] = Append(@, researcher_name)]
    IN  [added EXCEPT !.counts = CountsOf(added)]

\* update_researcher_status: the data after the in-memory update
UpdatedProgress(pd, researcher_name, new_status) ==
    LET removed == [pd EXCEPT
                      !.pending = ListRemove(@, researcher_name),
                      !.success = ListRemove(@, researcher_name),
                      !.failed_retrying = ListRemove(@, researcher_name),
                      !.failed_exhausted = ListRemove(@, researcher_name)]
        added == [removed EXCEPT ![new_status] = Append(@, researcher_name)]
    IN  [added EXCEPT !.counts = CountsOf(added)]

AbsentFile == [kind |-> "absent", data |-> CreateEmptyProgressData]
CorruptFile == [kind |-> "corrupt", data |-> CreateEmptyProgressData]
WriteOutcomes == {"ok", "open_failed", "dump_failed"}

\* a faulty write that reports success and leaves the file as it was
WrittenFileLost(file, pd, outcome) == file

\* _write_progress_file: open(..., "w") truncates, json.dump writes; every
\* exception is caught and logged
WrittenFile(file, pd, outcome) ==
    CASE outcome = "ok" -> [kind |-> "ok", data |-> pd]
      [] outcome = "open_failed" -> file
      [] OTHER -> CorruptFile

\* load_progress_from_log: None when the file is missing or does not parse
LoadProgressFromLog(file) ==
    IF file.kind = "ok" THEN file.data ELSE CreateEmptyProgressData
LoadSucceeds(file) == file.kind = "ok"

\* a checkpoint a previous run over the same CSV can have left behind
PriorCheckpoints ==
    {[total_researchers |-> NumResearchers,
      pending |-> KeepOnly(csv_names, {n \in Researchers : f[n] = "pending"}),
      success |-> KeepOnly(csv_names, {n \in Researchers : f[n] = "success"}),
      failed_retrying |-> KeepOnly(csv_names, {n \in Researchers : f[n] = "failed_retrying"}),
      failed_exhausted |-> KeepOnly(csv_names, {n \in Researchers : f[n] = "failed_exhausted"}),
      counts |-> [pending |-> Cardinality({n \in Researchers : f[n] = "pending"}),
                  success |-> Cardinality({n \in Researchers : f[n] = "success"}),
                  failed_retrying |-> Cardinality({n \in Researchers : f[n] = "failed_retrying"}),
                  failed_exhausted |-> Cardinality({n \in Researchers : f[n] = "failed_exhausted"})]]
       : f \in [Researchers -> Range(StatusLists)]}

(* ---------------- the usage ledger and the gate ---------------- *)

\* extract_tor_ip_from_output on the "Tor IP: ..." line of stdout: the first
\* whitespace-separated token after the label
ExtractTorIp(tor_ip_field) ==
    IF tor_ip_field = ErroredIP THEN "Errored" ELSE tor_ip_field

Identities == IPs \cup {"Errored"}

\* get_ip_usage_count
GetIpUsageCount(usage, ip_address) ==
    IF ip_address = NoIP THEN 0 ELSE usage[ip_address]

\* a faulty increment
IncrementedTwice(count) == count + 2

\* log_successful_scrape 67: += 1
Incremented(count) == count + 1

\* log_successful_scrape: the counter after the call
LoggedUsage(usage, ip_address) ==
    IF ip_address = NoIP THEN usage
    ELSE [usage EXCEPT ![ip_address] = Incremented(@)]

\* ip_details of an address no success was logged against: no entry
NoDetails == [total_usage |-> 0, usage_history |-> <<>>]
EmptyUsage == [ip \in Identities |-> 0]
EmptyDetails == [ip \in Identities |-> NoDetails]

\* an entry of usage_history; its payload (researcher, timestamp, thread_id)
\* is written once and read by nothing, and is left out
HistoryEntry == "use"

\* a faulty update that starts the history again at every call
LoggedDetailsRestarted(details, usage, ip_address) ==
    IF ip_address = NoIP THEN details
    ELSE [details EXCEPT ![ip_address] =
            [total_usage |-> usage[ip_address],
             usage_history |-> <<HistoryEntry>>]]

\* log_successful_scrape 69-84: the details after the call, given the counter
\* it has just incremented
LoggedDetails(details, usage, ip_address) ==
    IF ip_address = NoIP THEN details
    ELSE [details EXCEPT ![ip_address] =
            [total_usage |-> usage[ip_address],
             usage_history |-> Append(@.usage_history, HistoryEntry)]]

\* len(self.ip_usage): the keys are the addresses with a count
UniqueIps(usage) == Cardinality({ip \in Identities : usage[ip] > 0})

\* sum(self.ip_usage.values())
RECURSIVE SumOver(_, _)
SumOver(usage, ips) ==
    IF ips = {} THEN 0
    ELSE LET ip == CHOOSE x \in ips : TRUE
         IN  usage[ip] + SumOver(usage, ips \ {ip})
SumUsage(usage) == SumOver(usage, Identities)

\* self.ip_usage[ip_address] += 1 on the defaultdict: a new key goes to the
\* end of the dict order
LoggedOrder(order, ip_address) ==
    IF ip_address = NoIP \/ ip_address \in Range(order) THEN order
    ELSE Append(order, ip_address)

\* save_to_file 93-99: the dict that is dumped (ip_order: the order of the
\* keys of its ip_usage)
SnapshotData(unique, total, usage, order, details) ==
    [total_unique_ips |-> unique, total_successful_scrapes |-> total,
     ip_usage |-> usage, ip_order |-> order, ip_details |-> details]

AbsentTracker ==
    [kind |-> "absent", data |-> SnapshotData(0, 0, EmptyUsage, <<>>, EmptyDetails)]
CorruptTracker ==
    [kind |-> "corrupt", data |-> SnapshotData(0, 0, EmptyUsage, <<>>, EmptyDetails)]

\* save_to_file 101-107: open(..., "w") truncates, json.dump writes; every
\* exception is caught and logged
WrittenTracker(file, data, outcome) ==
    CASE outcome = "ok" -> [kind |-> "ok", data |-> data]
      [] outcome = "open_failed" -> file
      [] OTHER -> CorruptTracker

\* the ledger file of a previous run that used every address up to the limit
UsedUpTracker ==
    [kind |-> "ok",
     data |-> SnapshotData(NumIPs, NumIPs * max_requests_per_ip,
                  [ip \in Identities |-> IF ip \in IPs THEN max_requests_per_ip ELSE 0],
                  SubSeq(AllIPs, 1, NumIPs),
                  [ip \in Identities |->
                      IF ip \in IPs
                      THEN [total_usage |-> max_requests_per_ip,
                            usage_history |-> [i \in 1..max_requests_per_ip |-> HistoryEntry]]
                      ELSE NoDetails])]

\* a faulty load that never reads the file
LoadExistingDataSkipped(usage, order, details, file) ==
    [ip_usage |-> usage, ip_order |-> order, ip_details |-> details]

\* load_existing_data: the ledger after the call
LoadExistingData(usage, order, details, file) ==
    CASE file.kind = "absent" ->
             [ip_usage |-> usage, ip_order |-> order, ip_details |-> details]
      [] file.kind = "ok" ->
             [ip_usage |-> file.data.ip_usage, ip_order |-> file.data.ip_order,
              ip_details |-> file.data.ip_details]
      [] OTHER ->
             [ip_usage |-> EmptyUsage, ip_order |-> <<>>, ip_details |-> EmptyDetails]

NoMostUsed == [ip |-> NoIP, count |-> 0]

\* max(self.ip_usage.items(), key=lambda x: x[1]): the items are visited in
\* dict order and a later item replaces the best one only when it is greater
RECURSIVE MaxItem(_, _, _)
MaxItem(usage, order, best) ==
    IF order = <<>> THEN best
    ELSE MaxItem(usage, Tail(order),
                 IF usage[Head(order)] > best.count
                 THEN [ip |-> Head(order), count |-> usage[Head(order)]]
                 ELSE best)

\* a faulty stats dict whose most_used_ip is the last of the maximal items
GetUsageStatsLastMax(usage, order) ==
    [total_unique_ips |-> UniqueIps(usage),
     total_successful_scrapes |-> SumUsage(usage),
     most_used_ip |->
         IF order = <<>> THEN NoMostUsed
         ELSE LET i == CHOOSE k \in 1..Len(order) :
                           /\ \A j \in 1..Len(order) : usage[order[j]] <= usage[order[k]]
                           /\ \A j \in (k + 1)..Len(order) : usage[order[j]] < usage[order[k]]
              IN  [ip |-> order[i], count |-> usage[order[i]]],
     ip_usage_distribution |-> usage]

\* get_usage_stats 112-121: the stats dict
GetUsageStats(usage, order) ==
    [total_unique_ips |-> UniqueIps(usage),
     total_successful_scrapes |-> SumUsage(usage),
     most_used_ip |->
         IF order = <<>> THEN NoMostUsed
         ELSE MaxItem(usage, Tail(order),
                      [ip |-> Head(order), count |-> usage[Head(order)]]),
     ip_usage_distribution |-> usage]

\* a faulty test that lets an address at the limit through
GateRejectsAbove(usage, current_ip) ==
    /\ current_ip # NoIP
    /\ current_ip # ErroredIP
    /\ GetIpUsageCount(usage, current_ip) > max_requests_per_ip

\* runner.py 505: the ceiling of the wait between forced rotations, seconds
BackoffCeiling == 60

\* a faulty wait without the ceiling
BackoffUncapped(k) == 2 ^ k

\* runner.py 505: backoff = min(2 ** ip_retry_attempt, 60)
Backoff(k) == IF 2 ^ k < BackoffCeiling THEN 2 ^ k ELSE BackoffCeiling

\* the test of the gate, runner.py 491-494: TRUE when the attempt must not run
GateRejects(usage, current_ip) ==
    /\ current_ip # NoIP
    /\ current_ip # ErroredIP
    /\ GetIpUsageCount(usage, current_ip) >= max_requests_per_ip

(* ---------------- what the runner seeds on start ---------------- *)

\* a faulty filter that keeps the successful names
RemainingResearchersUnfiltered(cont, pd) == csv_names

\* a faulty filter that also drops the names the checkpoint has as exhausted
RemainingResearchersSkipExhausted(cont, pd) ==
    IF cont THEN FilterOut(csv_names, Range(pd.success) \cup Range(pd.failed_exhausted))
    ELSE csv_names

\* a faulty filter that also drops the names the checkpoint has as retrying
RemainingResearchersSkipRetrying(cont, pd) ==
    IF cont THEN FilterOut(csv_names, Range(pd.success) \cup Range(pd.failed_retrying))
    ELSE csv_names

\* process_researchers_from_csv 810-819: the names left to process
RemainingResearchers(cont, pd) ==
    IF cont THEN FilterOut(csv_names, Range(pd.success)) ELSE csv_names

\* process_researchers_from_csv 848-852: the initial successful_researchers
SeededSuccessful(cont, pd) ==
    IF cont THEN Range(pd.success) ELSE {}

\* a faulty completion test that is satisfied by the first success
AllSuccessfulAny(successful, data) ==
    successful # {}

\* _process_researchers_with_queue 770-771: the global-completion test
AllSuccessful(successful, data) ==
    Cardinality(successful) = Len(data)

(* ---------------- state ---------------- *)

VARIABLES
    continue_mode,          \* self.continue_mode
    existing_progress,      \* what __init__ loaded (kept for reference)
    progress_data,          \* self.progress_data
    progress_file,          \* scraping_progress.json on disk
    last_update,            \* the latest checkpoint write: whose, to what, written?
    write_failures,         \* number of failed _write_progress_file calls
    researchers_data,       \* the dict handed to _process_researchers_with_queue
    researcher_queue,       \* self.researcher_queue
    results,                \* results: name -> list of attempt records
    successful_researchers, \* the shared set
    ip_usage,               \* ip_tracker.ip_usage
    ip_order,               \* the keys of ip_tracker.ip_usage, in dict order
    ip_details,             \* ip_tracker.ip_details
    tracker_file,           \* ip_usage_tracker.json on disk
    pc,                     \* per worker thread: where it is
    cur,                    \* per worker thread: researcher_name it owns
    attempt_num,            \* per worker thread
    retry_step,             \* per worker thread: what was done before the
                            \* attempt: the identity request and the wait
    ip_retry_attempt,       \* per worker thread, inside the gate
    backoff,                \* per worker thread: the local backoff of the gate,
                            \* in seconds (0: not set in this attempt)
    result,                 \* per worker thread: the result dict of the attempt
    over_at_start,          \* per worker thread: identities at or over the limit
                            \* when the running attempt passed the gate
    cpc,                    \* the coordinator: where it is
    exit_reason,            \* how the polling loop was left
    discarded,              \* names the shutdown drain took off the queue
    lock,                   \* ip_tracker.lock: the caller that holds it
    tracker_pc,             \* per caller of the ledger: where it is in its call
    call_args,              \* per caller of the ledger: the arguments of its call
    save_data,              \* the local dict data of a running save_to_file
    log_calls,              \* per address: log_successful_scrape calls made
    sync,                   \* how the ledger file relates to the ledger
    tracker2,               \* a second IPTracker constructed on the file
    tor,                    \* the Tor service, as the constructor finds it
    paper_rows,             \* parse_author_profile: the rows of the profile page
    ppc,                    \* parse_author_profile: where the call is
    row_i,                  \* the row the loop is at (i + 1)
    paper_attempt,          \* visits of the paper page made for this row
    fetched,                \* the local fetched
    description,            \* the local description
    rotations,              \* get_new_identity calls made for this row
    consecutive_failures,   \* the local consecutive_failures
    papers,                 \* the local list papers
    parse_result,           \* what the call returned
    pages_fetched,          \* paper pages that visit_paper_page has returned
    observed_ip,            \* per worker thread: the local current_ip of the gate
    progress_lock,          \* self.progress_lock: the thread that holds it
    status_pc,              \* per worker thread: where it is inside a call of
                            \* update_researcher_status
    status_args,            \* per worker thread: the arguments of that call
    requested,              \* per task: the status its latest status call named
    lock_holder,            \* per lock of the runner and of its ledger: the
                            \* thread that holds it
    lock_at,                \* per thread: the place of the code it is at, as
                            \* far as locks and waits go
    lock_depth,             \* per thread: how many locks of that place it holds
    lock_leaving            \* per thread: it has done what the place does
                            \* under its locks

vars == <<continue_mode, existing_progress, progress_data, progress_file,
          last_update, write_failures, researchers_data, researcher_queue,
          results, successful_researchers, ip_usage, ip_order, ip_details,
          tracker_file, pc, cur, attempt_num, retry_step, ip_retry_attempt,
          backoff, result,
          over_at_start, cpc, exit_reason, discarded, lock, tracker_pc,
          call_args, save_data, log_calls, sync, tracker2, tor, paper_rows,
          ppc, row_i, paper_attempt, fetched, description, rotations,
          consecutive_failures, papers, parse_result, pages_fetched,
          observed_ip, progress_lock, status_pc, status_args, requested,
          lock_holder, lock_at, lock_depth, lock_leaving>>

progress_vars == <<progress_data, progress_file, last_update, write_failures>>
worker_locals == <<cur, attempt_num, retry_step, ip_retry_attempt, backoff, result, over_at_start>>
fixed_vars == <<continue_mode, existing_progress, researchers_data, tor>>
coord_vars == <<cpc, exit_reason, discarded>>
\* the frame of a call of TorScholarSearch.parse_author_profile, followed in
\* SpecParse
parse_vars == <<paper_rows, ppc, row_i, paper_attempt, fetched, description,
                rotations, consecutive_failures, papers, parse_result,
                pages_fetched>>
\* the inside of the calls of update_researcher_status, followed step by
\* step in SpecCheckpoint
status_locals == <<progress_lock, status_pc, status_args, requested>>
\* the locks and who is where between them, followed in SpecLocks
lock_locals == <<lock_holder, lock_at, lock_depth, lock_leaving>>
\* the inside of the IPTracker calls, followed step by step in SpecLedger
tracker_locals == <<lock, tracker_pc, call_args, save_data, log_calls, sync,
                    tracker2>>

\* the error text of an attempt: none on success, the error the scrape reports
\* (497-501) or the text of an exception (557, str(e))
NoError == ""
ReportedError == "Unknown error"
RaisedError == "exception"
NoResult == [success |-> FALSE, tor_ip |-> NoIP, error |-> NoError]
\* runner.py 25
RETRY_WAIT_SECONDS == 1
\* no identity request and no wait before the attempt
NoRetryStep == [rotation |-> "none", wait |-> 0]
NoStatusArgs == [name |-> NoName, status |-> "pending"]
NoUpdate == [name |-> NoName, status |-> "pending", write_ok |-> FALSE]

\* the callers of the ledger: the worker threads and the main thread
MainThread == 0
Callers == Threads \cup {MainThread}
NoHolder == -1
NoArgs == [ip_address |-> NoIP, read |-> 0]
NoData == SnapshotData(0, 0, EmptyUsage, <<>>, EmptyDetails)

\* runner.py 105, 106, 129, 149 and ip_tracker.py 20: the five locks, the
\* ledger's under the name "lock"
LockNames == {"queue_lock", "print_lock", "results_lock", "progress_lock", "lock"}

\* the Tor service when the runner is constructed: reachable on its control
\* port, not reachable but started by start_tor_service within the timeout,
\* or neither (not installed, port taken, not ready in time)
TorStates == {"running", "startable", "unavailable"}

\* scraper.py 153, 200: the description of a paper whose page gave none
DescriptionNotAvailable == "Description not available"
\* parse_author_profile has not returned
NotReturned == [kind |-> "running", papers |-> <<>>]

\* parse_author_profile 165-178: the locals at the head of the loop over the
\* rows; at is "idle" where no call is followed
ParseStart(rows, at) ==
    /\ paper_rows = rows
    /\ ppc = at
    /\ row_i = 1
    /\ paper_attempt = 0
    /\ fetched = FALSE
    /\ description = DescriptionNotAvailable
    /\ rotations = 0
    /\ consecutive_failures = 0
    /\ papers = <<>>
    /\ parse_result = NotReturned
    /\ pages_fetched = 0

\* __init__ 107-146: the progress data with which the runner is constructed,
\* and 119-120: its IPTracker, which loads ip_usage_tracker.json of the log
\* directory (tfile); at says how far the constructor is, t what Tor is like
InitRunnerOn(cont, file, at, t, tfile) ==
    /\ continue_mode = cont
    /\ progress_file = file
    /\ existing_progress = file
    /\ progress_data = IF cont THEN LoadProgressFromLog(file)
                       ELSE CreateEmptyProgressData
    /\ last_update = NoUpdate
    /\ write_failures = 0
    /\ researchers_data = <<>>
    /\ researcher_queue = <<>>
    /\ results = <<>>
    /\ successful_researchers = {}
    /\ ip_usage = LoadExistingData(EmptyUsage, <<>>, EmptyDetails, tfile).ip_usage
    /\ ip_order = LoadExistingData(EmptyUsage, <<>>, EmptyDetails, tfile).ip_order
    /\ ip_details = LoadExistingData(EmptyUsage, <<>>, EmptyDetails, tfile).ip_details
    /\ tracker_file = tfile
    /\ pc = [w \in Threads |-> "idle"]
    /\ cur = [w \in Threads |-> NoName]
    /\ attempt_num = [w \in Threads |-> 0]
    /\ retry_step = [w \in Threads |-> NoRetryStep]
    /\ ip_retry_attempt = [w \in Threads |-> 0]
    /\ backoff = [w \in Threads |-> 0]
    /\ result = [w \in Threads |-> NoResult]
    /\ over_at_start = [w \in Threads |-> {}]
    /\ cpc = at
    /\ exit_reason = "none"
    /\ discarded = {}
    /\ lock = NoHolder
    /\ tracker_pc = [c \in Callers |-> "idle"]
    /\ call_args = [c \in Callers |-> NoArgs]
    /\ save_data = NoData
    /\ log_calls = EmptyUsage
    /\ sync = "none"
    /\ tracker2 = EmptyUsage
    /\ tor = t
    /\ observed_ip = [w \in Threads |-> NoIP]
    /\ progress_lock = NoHolder
    /\ status_pc = [w \in Threads |-> "idle"]
    /\ status_args = [w \in Threads |-> NoStatusArgs]
    /\ requested = [n \in Researchers |-> "pending"]
    /\ lock_holder = [l \in LockNames |-> NoHolder]
    /\ lock_at = [c \in Callers |-> IF c = MainThread THEN "initialize"
                                    ELSE "unstarted"]
    /\ lock_depth = [c \in Callers |-> 0]
    /\ lock_leaving = [c \in Callers |-> FALSE]

\* the runner constructed on a log directory without a ledger file
InitRunner(cont, file, at, t) == InitRunnerOn(cont, file, at, t, AbsentTracker)

InitAt(cont, file, at, t) == InitRunner(cont, file, at, t) /\ ParseStart(<<>>, "idle")

\* the runner constructed, Tor running
InitFor(cont, file) == InitAt(cont, file, "start", "running")
\* a fresh runner at the last step of its constructor (148), Tor in any state
InitStartup == \E t \in TorStates : InitAt(FALSE, AbsentFile, "construct", t)

ResumeFiles ==
    {AbsentFile, CorruptFile} \cup {[kind |-> "ok", data |-> d] : d \in PriorCheckpoints}

InitFresh == InitFor(FALSE, AbsentFile)
InitResume == \E file \in ResumeFiles : InitFor(TRUE, file)
Init == InitFresh \/ InitResume
\* a run resumed in a log directory whose ledger file has every address at
\* the limit
InitBackoff ==
    \E file \in ResumeFiles :
        /\ InitRunnerOn(TRUE, file, "start", "running", UsedUpTracker)
        /\ ParseStart(<<>>, "idle")

(* ---------------- the checkpoint write ---------------- *)

WriteAllowed(o) == o = "ok" \/ write_failures < MaxWriteFailures

\* update_researcher_status, whole: in-memory update and file write under
\* progress_lock
UpdateResearcherStatus(researcher_name, new_status, o) ==
    /\ WriteAllowed(o)
    /\ progress_data' = UpdatedProgress(progress_data, researcher_name, new_status)
    /\ progress_file' = WrittenFile(progress_file, progress_data', o)
    /\ last_update' = [name |-> researcher_name, status |-> new_status,
                       write_ok |-> (o = "ok")]
    /\ write_failures' = IF o = "ok" THEN write_failures ELSE write_failures + 1

(* ---------------- the coordinator ---------------- *)

\* the main thread is inside _process_researchers_with_queue or after it
InRun == cpc \in {"poll", "poll_alive", "join", "drain", "save", "final"}
\* the process lives and its worker threads run: the main thread is in the
\* run or in the signal handler
Running == InRun \/ cpc = "signal"

\* a faulty start that reports Tor running whatever happened
StartTorServiceAlways(t) == TRUE

\* start_tor_service 183-224: True when Tor answers on its control port, or
\* when the started process answers within the timeout; False otherwise
StartTorService(t) == t \in {"running", "startable"}

\* __init__ 148-155: Tor is started if need be; RuntimeError when it cannot
\* be, which ends the process (cli.py 130-134)
Construct ==
    /\ cpc = "construct"
    /\ IF StartTorService(tor)
       THEN /\ cpc' = "start"
            /\ tor' = IF tor = "startable" THEN "running" ELSE tor
            /\ UNCHANGED exit_reason
       ELSE cpc' = "crashed" /\ exit_reason' = "tor" /\ UNCHANGED tor
    /\ UNCHANGED <<continue_mode, existing_progress, researchers_data, progress_vars,
                   researcher_queue, results, successful_researchers, ip_usage,
                   ip_order, ip_details, tracker_file, pc, worker_locals, discarded,
                   tracker_locals, parse_vars, observed_ip, status_locals,
                   lock_locals>>

\* process_researchers_from_csv 805-856 up to the start of the worker threads
Start ==
    /\ cpc = "start"
    /\ LET data == RemainingResearchers(continue_mode, progress_data) IN
       /\ researchers_data' = data
       /\ IF continue_mode /\ data = <<>>
          THEN /\ cpc' = "returned"
               /\ UNCHANGED <<progress_vars, researcher_queue,
                              successful_researchers, pc>>
          ELSE /\ IF continue_mode
                  THEN UNCHANGED progress_vars
                  ELSE \E o \in WriteOutcomes :
                         /\ WriteAllowed(o)
                         /\ progress_data' = InitializedProgress(csv_names)
                         /\ progress_file' = WrittenFile(progress_file, progress_data', o)
                         /\ last_update' = [NoUpdate EXCEPT !.write_ok = (o = "ok")]
                         /\ write_failures' = IF o = "ok" THEN write_failures
                                              ELSE write_failures + 1
               /\ successful_researchers' = SeededSuccessful(continue_mode, progress_data)
               /\ researcher_queue' = data
               /\ pc' = [w \in Threads |-> "get"]
               /\ cpc' = "poll"
    /\ UNCHANGED <<continue_mode, existing_progress, results, ip_usage,
                   ip_order, ip_details, tracker_file, worker_locals, exit_reason,
                   discarded, tracker_locals, tor, parse_vars, observed_ip,
                   status_locals, lock_locals>>

\* 770-776: the completion test under results_lock
PollSuccess ==
    /\ cpc = "poll"
    /\ IF AllSuccessful(successful_researchers, researchers_data)
       THEN cpc' = "join" /\ exit_reason' = "complete"
       ELSE cpc' = "poll_alive" /\ UNCHANGED exit_reason
    /\ UNCHANGED <<parse_vars, lock_locals, status_locals, observed_ip, fixed_vars, tracker_locals, progress_vars, researcher_queue, results,
                   successful_researchers, ip_usage, ip_order, ip_details, tracker_file, pc,
                   worker_locals, discarded>>

\* a faulty test that never finds the threads ended
NoThreadAliveNever(pcs) == FALSE

\* a faulty test that takes one ended thread for all
NoThreadAliveAny(pcs) == \E w \in Threads : pcs[w] = "exited"

\* 778: not any(t.is_alive() for t in threads)
NoThreadAlive(pcs) == \A w \in Threads : pcs[w] = "exited"

\* 778-781: the liveness test of the threads
PollAlive ==
    /\ cpc = "poll_alive"
    /\ IF NoThreadAlive(pc)
       THEN cpc' = "join" /\ exit_reason' = "all_dead"
       ELSE cpc' = "poll" /\ UNCHANGED exit_reason
    /\ UNCHANGED <<parse_vars, lock_locals, status_locals, observed_ip, fixed_vars, tracker_locals, progress_vars, researcher_queue, results,
                   successful_researchers, ip_usage, ip_order, ip_details, tracker_file, pc,
                   worker_locals, discarded>>

\* 783-786: join with a timeout; returns whether or not the threads ended
Join ==
    /\ cpc = "join"
    /\ cpc' = "drain"
    /\ UNCHANGED <<parse_vars, lock_locals, status_locals, observed_ip, fixed_vars, tracker_locals, progress_vars, researcher_queue, results,
                   successful_researchers, ip_usage, ip_order, ip_details, tracker_file, pc,
                   worker_locals, exit_reason, discarded>>

\* 783-786: the joins return because the threads have ended.  In a fresh
\* run the loop is left when no thread is alive or when every task is in
\* successful_researchers; what a live thread then still does is a status
\* write, a ledger call and one queue.get of QUEUE_TIMEOUT_SECONDS (5 s),
\* against a join timeout of THREAD_JOIN_TIMEOUT_SECONDS (30 s) per thread
JoinEnded ==
    /\ cpc = "join"
    /\ NoThreadAlive(pc)
    /\ cpc' = "drain"
    /\ UNCHANGED <<parse_vars, lock_locals, status_locals, observed_ip, fixed_vars, tracker_locals, progress_vars, researcher_queue, results,
                   successful_researchers, ip_usage, ip_order, ip_details, tracker_file, pc,
                   worker_locals, exit_reason, discarded>>

\* 788-793: the drain of the queue, one get_nowait per step
Drain ==
    /\ cpc = "drain"
    /\ IF researcher_queue # <<>>
       THEN /\ researcher_queue' = Tail(researcher_queue)
            /\ discarded' = discarded \cup {Head(researcher_queue)}
            /\ UNCHANGED cpc
       ELSE /\ cpc' = "save"
            /\ UNCHANGED <<researcher_queue, discarded>>
    /\ UNCHANGED <<parse_vars, lock_locals, status_locals, observed_ip, fixed_vars, tracker_locals, progress_vars, results, successful_researchers,
                   ip_usage, ip_order, ip_details, tracker_file, pc, worker_locals, exit_reason>>

\* 795-797: ip_tracker.save_to_file, whole
SaveTracker ==
    /\ cpc = "save"
    /\ \E o \in WriteOutcomes :
         /\ WriteAllowed(o)
         /\ tracker_file' = WrittenTracker(tracker_file,
                             SnapshotData(UniqueIps(ip_usage), SumUsage(ip_usage),
                                          ip_usage, ip_order, ip_details), o)
         /\ write_failures' = IF o = "ok" THEN write_failures
                              ELSE write_failures + 1
    /\ cpc' = "final"
    /\ UNCHANGED <<parse_vars, lock_locals, status_locals, observed_ip, fixed_vars, tracker_locals, progress_data, progress_file,
                   last_update, researcher_queue, results,
                   successful_researchers, ip_usage, ip_order, ip_details, pc,
                   worker_locals, exit_reason, discarded>>

\* the sum of the lengths of the attempt lists of the names in names
RECURSIVE TotalAttempts(_, _)
TotalAttempts(res, names) ==
    IF names = {} THEN 0
    ELSE LET n == CHOOSE x \in names : TRUE
         IN  Len(res[n]) + TotalAttempts(res, names \ {n})

\* _print_final_summary 876-880: the numbers of the final summary
FinalSummary(res, successful) ==
    [total_researchers |-> Cardinality(DOMAIN res),
     successful_count |-> Cardinality(successful),
     exhausted_count |-> Cardinality(DOMAIN res) - Cardinality(successful),
     total_attempts |-> TotalAttempts(res, DOMAIN res)]

\* 858-864: print_current_progress divides by total_researchers, then the
\* summary (logged from results and successful_researchers as they are at
\* this step); the process ends and takes its daemon threads with it
Final ==
    /\ cpc = "final"
    /\ cpc' = IF progress_data.total_researchers = 0 THEN "crashed" ELSE "done"
    /\ UNCHANGED <<parse_vars, lock_locals, status_locals, observed_ip, fixed_vars, tracker_locals, progress_vars, researcher_queue, results,
                   successful_researchers, ip_usage, ip_order, ip_details, tracker_file, pc,
                   worker_locals, exit_reason, discarded>>

(* ---------------- signals and the end of the process ---------------- *)

\* signal_handler 277: sys.exit(0)
SignalExitCode == 0
\* cli.py 130-134: an exception out of the run ends the process with 1
ErrorExitCode == 1
StillRunning == -1

\* __init__ 125-126, signal_handler 268-276: SIGINT or SIGTERM arrives while
\* the main thread is in the run; the handler starts in the main thread, the
\* worker threads go on
SignalArrives ==
    /\ InRun
    /\ cpc' = "signal"
    /\ UNCHANGED <<parse_vars, lock_locals, status_locals, observed_ip, fixed_vars, tracker_locals, progress_vars, researcher_queue,
                   results, successful_researchers, ip_usage, ip_order, ip_details,
                   tracker_file, pc, worker_locals, exit_reason, discarded>>

\* signal_handler 276-277: cleanup_tor, then sys.exit(0); SystemExit unwinds
\* the main thread (cli.py 126-136 catches KeyboardInterrupt and Exception
\* only) and the process ends, taking its daemon threads with it
SignalExit ==
    /\ cpc = "signal"
    /\ cpc' = "killed"
    /\ UNCHANGED <<parse_vars, lock_locals, status_locals, observed_ip, fixed_vars, tracker_locals, progress_vars, researcher_queue,
                   results, successful_researchers, ip_usage, ip_order, ip_details,
                   tracker_file, pc, worker_locals, exit_reason, discarded>>

\* the exit status of the process
ExitStatus(c) ==
    CASE c = "killed" -> SignalExitCode
      [] c = "crashed" -> ErrorExitCode
      [] c \in {"done", "returned"} -> 0
      [] OTHER -> StillRunning

(* ---------------- the worker threads ---------------- *)

\* a faulty retry test that allows one attempt too many
RetriesExhaustedLate(n) == n > max_retries + 1

\* _queue_worker_thread 602: the test made after attempt_num += 1
RetriesExhausted(n) == n > max_retries

\* a faulty get that leaves the task in the queue
QueueAfterGetKept(q) == q

\* 577-580: queue.get takes the first task out of the queue
QueueAfterGet(q) == Tail(q)

\* 577-597: queue.get; on a task, its results list is created
Dequeue(w) ==
    /\ Running /\ pc[w] = "get"
    /\ researcher_queue # <<>>
    /\ LET researcher_name == Head(researcher_queue) IN
       /\ researcher_queue' = QueueAfterGet(researcher_queue)
       /\ cur' = [cur EXCEPT ![w] = researcher_name]
       /\ results' = IF researcher_name \in DOMAIN results THEN results
                     ELSE results @@ (researcher_name :> <<>>)
    /\ attempt_num' = [attempt_num EXCEPT ![w] = 0]
    /\ retry_step' = [retry_step EXCEPT ![w] = NoRetryStep]
    /\ pc' = [pc EXCEPT ![w] = "loop"]
    /\ UNCHANGED <<parse_vars, lock_locals, status_locals, observed_ip, fixed_vars, tracker_locals, progress_vars,
                   successful_researchers, ip_usage, ip_order, ip_details, tracker_file,
                   ip_retry_attempt, backoff, result, over_at_start, coord_vars>>

\* 581-589: queue.Empty, the queue is still empty under queue_lock: the thread
\* ends (nothing is enqueued once the threads run)
WorkerExit(w) ==
    /\ Running /\ pc[w] = "get"
    /\ researcher_queue = <<>>
    /\ pc' = [pc EXCEPT ![w] = "exited"]
    /\ UNCHANGED <<parse_vars, lock_locals, status_locals, observed_ip, fixed_vars, tracker_locals, progress_vars, researcher_queue, results,
                   successful_researchers, ip_usage, ip_order, ip_details, tracker_file, worker_locals, coord_vars>>

\* a faulty step that requests an identity and waits before every attempt
PreRetryAlways(attempt, outcome) ==
    [rotation |-> outcome, wait |-> RETRY_WAIT_SECONDS]

\* 622-643: before an attempt after the first, a new identity is requested
\* and the thread sleeps RETRY_WAIT_SECONDS, in the try branch or, when the
\* request raised, in the except branch
PreRetry(attempt, outcome) ==
    IF attempt > 1 THEN [rotation |-> outcome, wait |-> RETRY_WAIT_SECONDS]
    ELSE NoRetryStep

\* 599-643: the head of the retry loop, up to the call of the scrape: the
\* loop test, attempt_num += 1, the exhaustion branch (status write, break,
\* task_done) or, before a retry, the request of a new identity and the wait
\* (the gate requests one again); outcomes are the ways the request may end
LoopTurn(w, outcomes) ==
    /\ Running /\ pc[w] = "loop"
    /\ IF cur[w] \in successful_researchers
       THEN /\ pc' = [pc EXCEPT ![w] = "get"]
            /\ cur' = [cur EXCEPT ![w] = NoName]
            /\ attempt_num' = [attempt_num EXCEPT ![w] = 0]
            /\ retry_step' = [retry_step EXCEPT ![w] = NoRetryStep]
            /\ UNCHANGED progress_vars
       ELSE IF RetriesExhausted(attempt_num[w] + 1)
       THEN /\ \E o \in WriteOutcomes :
                  UpdateResearcherStatus(cur[w], "failed_exhausted", o)
            /\ pc' = [pc EXCEPT ![w] = "get"]
            /\ cur' = [cur EXCEPT ![w] = NoName]
            /\ attempt_num' = [attempt_num EXCEPT ![w] = 0]
            /\ retry_step' = [retry_step EXCEPT ![w] = NoRetryStep]
       ELSE /\ attempt_num' = [attempt_num EXCEPT ![w] = @ + 1]
            /\ \E outcome \in outcomes :
                 retry_step' = [retry_step EXCEPT ![w] =
                                   PreRetry(attempt_num[w] + 1, outcome)]
            /\ pc' = [pc EXCEPT ![w] = "gate"]
            /\ UNCHANGED <<progress_vars, cur>>
    /\ UNCHANGED <<parse_vars, lock_locals, status_locals, observed_ip, fixed_vars, tracker_locals, researcher_queue, results, successful_researchers,
                   ip_usage, ip_order, ip_details, tracker_file, ip_retry_attempt, backoff, result,
                   over_at_start, coord_vars>>

\* the head of the retry loop, the outcome of the identity request not kept
LoopHead(w) == LoopTurn(w, {"requested"})
\* the head of the retry loop, the identity request succeeding or raising
LoopHeadRetry(w) == LoopTurn(w, {"ok", "failed"})

\* _run_single_researcher_scrape_by_scholar_id 456-507, one turn of its loop:
\* a new identity is requested, the current address is read (it may fail to
\* be read), and the usage count decides between backoff and the scrape
GateTurn(w, cap) ==
    /\ Running /\ pc[w] = "gate"
    /\ \E new_ip \in IPs : \E current_ip \in {new_ip, ErroredIP} :
         /\ IF GateRejects(ip_usage, current_ip)
            THEN /\ ip_retry_attempt[w] < cap
                 /\ ip_retry_attempt' = [ip_retry_attempt EXCEPT ![w] = @ + 1]
                 /\ backoff' = [backoff EXCEPT ![w] = Backoff(ip_retry_attempt[w] + 1)]
                 /\ UNCHANGED <<pc, over_at_start>>
            ELSE /\ pc' = [pc EXCEPT ![w] = "scrape"]
                 /\ over_at_start' = [over_at_start EXCEPT ![w] =
                        {ip \in Identities : ip_usage[ip] >= max_requests_per_ip}]
                 /\ UNCHANGED <<ip_retry_attempt, backoff>>
    /\ UNCHANGED <<parse_vars, lock_locals, status_locals, observed_ip, fixed_vars, tracker_locals, progress_vars, researcher_queue, results,
                   successful_researchers, ip_usage, ip_order, ip_details, tracker_file, cur,
                   attempt_num, retry_step, result, coord_vars>>

\* the gate, followed for MaxIpRetry forced rotations of an attempt
Gate(w) == GateTurn(w, MaxIpRetry)
\* the gate, followed for MaxForced forced rotations of an attempt
GateBackoff(w) == GateTurn(w, MaxForced)

\* 456-489, the gate followed step by step (SpecGate): a new identity is
\* requested and the current address read into current_ip
GateObserve(w) ==
    /\ Running /\ pc[w] = "gate"
    /\ \E new_ip \in IPs : \E current_ip \in {new_ip, ErroredIP} :
         observed_ip' = [observed_ip EXCEPT ![w] = current_ip]
    /\ pc' = [pc EXCEPT ![w] = "gate_check"]
    /\ UNCHANGED <<parse_vars, lock_locals, status_locals, fixed_vars, tracker_locals, progress_vars, researcher_queue,
                   results, successful_researchers, ip_usage, ip_order, ip_details,
                   tracker_file, cur, attempt_num, retry_step, ip_retry_attempt, backoff, result,
                   over_at_start, coord_vars>>

\* 491-507: the usage count of current_ip is read and decides: backoff and
\* another turn of the loop, or the scrape
GateDecide(w) ==
    /\ Running /\ pc[w] = "gate_check"
    /\ IF GateRejects(ip_usage, observed_ip[w])
       THEN /\ ip_retry_attempt[w] < MaxIpRetry
            /\ ip_retry_attempt' = [ip_retry_attempt EXCEPT ![w] = @ + 1]
            /\ backoff' = [backoff EXCEPT ![w] = Backoff(ip_retry_attempt[w] + 1)]
            /\ pc' = [pc EXCEPT ![w] = "gate"]
            /\ UNCHANGED over_at_start
       ELSE /\ pc' = [pc EXCEPT ![w] = "scrape"]
            /\ over_at_start' = [over_at_start EXCEPT ![w] =
                   {ip \in Identities : ip_usage[ip] >= max_requests_per_ip}]
            /\ UNCHANGED <<ip_retry_attempt, backoff>>
    /\ UNCHANGED <<parse_vars, lock_locals, status_locals, observed_ip, fixed_vars, tracker_locals, progress_vars,
                   researcher_queue, results, successful_researchers, ip_usage,
                   ip_order, ip_details, tracker_file, cur, attempt_num, retry_step, result,
                   coord_vars>>

\* 509-562 and scraper.py 451-544: the scrape ends, with success or not; it
\* may have requested new identities on the way (parse_author_profile), and
\* a success reports the address read at its end
Scrape(w) ==
    /\ Running /\ pc[w] = "scrape"
    /\ \E ok \in BOOLEAN, end_ip \in IPs : \E reported \in {end_ip, ErroredIP} :
         result' = [result EXCEPT ![w] =
                [success |-> ok, tor_ip |-> IF ok THEN reported ELSE NoIP,
                 error |-> IF ok THEN NoError ELSE ReportedError]]
    /\ pc' = [pc EXCEPT ![w] = "record"]
    /\ UNCHANGED <<parse_vars, lock_locals, status_locals, observed_ip, fixed_vars, tracker_locals, progress_vars, researcher_queue, results,
                   successful_researchers, ip_usage, ip_order, ip_details, tracker_file, cur,
                   attempt_num, retry_step, ip_retry_attempt, backoff, over_at_start, coord_vars>>

\* 548-562: the result returned when anything inside the attempt raises
RaisedResult == [success |-> FALSE, tor_ip |-> NoIP, error |-> RaisedError]

\* 456-507, 548-562: the identity step of the gate raises (the construction
\* of the searcher, get_new_identity, get_current_ip or the ledger read)
GateRaises(w) ==
    /\ Running /\ pc[w] = "gate"
    /\ result' = [result EXCEPT ![w] = RaisedResult]
    /\ pc' = [pc EXCEPT ![w] = "record"]
    /\ UNCHANGED <<parse_vars, lock_locals, status_locals, observed_ip, fixed_vars, tracker_locals, progress_vars, researcher_queue, results,
                   successful_researchers, ip_usage, ip_order, ip_details, tracker_file, cur,
                   attempt_num, retry_step, ip_retry_attempt, backoff, over_at_start, coord_vars>>

\* 509-511, 548-562: scrape_researcher_by_scholar_id raises
ScrapeRaises(w) ==
    /\ Running /\ pc[w] = "scrape"
    /\ result' = [result EXCEPT ![w] = RaisedResult]
    /\ pc' = [pc EXCEPT ![w] = "record"]
    /\ UNCHANGED <<parse_vars, lock_locals, status_locals, observed_ip, fixed_vars, tracker_locals, progress_vars, researcher_queue, results,
                   successful_researchers, ip_usage, ip_order, ip_details, tracker_file, cur,
                   attempt_num, retry_step, ip_retry_attempt, backoff, over_at_start, coord_vars>>

\* a faulty record that numbers the attempts from 0
AttemptRecordFromZero(attempt, success, error, thread_id) ==
    [attempt |-> attempt - 1, success |-> success, error |-> error,
     thread_id |-> thread_id]

\* a faulty record that drops the error text
AttemptRecordNoText(attempt, success, error, thread_id) ==
    [attempt |-> attempt, success |-> success, error |-> NoError,
     thread_id |-> thread_id]

\* 651-657: the attempt record (the result itself, with its error text)
AttemptRecord(attempt, success, error, thread_id) ==
    [attempt |-> attempt, success |-> success, error |-> error,
     thread_id |-> thread_id]

\* 651-657: the attempt record is appended under results_lock
RecordResult(w) ==
    /\ Running /\ pc[w] = "record"
    /\ results' = [results EXCEPT ![cur[w]] =
           Append(@, AttemptRecord(attempt_num[w], result[w].success, result[w].error, w))]
    /\ pc' = [pc EXCEPT ![w] = IF result[w].success THEN "add_success"
                               ELSE "status_retry"]
    /\ UNCHANGED <<parse_vars, lock_locals, status_locals, observed_ip, fixed_vars, tracker_locals, progress_vars, researcher_queue,
                   successful_researchers, ip_usage, ip_order, ip_details, tracker_file, worker_locals, coord_vars>>

\* 659-661
AddSuccess(w) ==
    /\ Running /\ pc[w] = "add_success"
    /\ successful_researchers' = successful_researchers \cup {cur[w]}
    /\ pc' = [pc EXCEPT ![w] = "status_success"]
    /\ UNCHANGED <<parse_vars, lock_locals, status_locals, observed_ip, fixed_vars, tracker_locals, progress_vars, researcher_queue, results,
                   ip_usage, ip_order, ip_details, tracker_file, worker_locals, coord_vars>>

\* 663
StatusSuccess(w) ==
    /\ Running /\ pc[w] = "status_success"
    /\ \E o \in WriteOutcomes : UpdateResearcherStatus(cur[w], "success", o)
    /\ pc' = [pc EXCEPT ![w] = "log_ip"]
    /\ UNCHANGED <<parse_vars, lock_locals, status_locals, observed_ip, fixed_vars, tracker_locals, researcher_queue, results, successful_researchers,
                   ip_usage, ip_order, ip_details, tracker_file, worker_locals, coord_vars>>

\* 665-693, 712: the success is logged against the reported address, the
\* loop is left and the queue slot marked done
LogIp(w) ==
    /\ Running /\ pc[w] = "log_ip"
    /\ ip_usage' = LoggedUsage(ip_usage, ExtractTorIp(result[w].tor_ip))
    /\ ip_order' = LoggedOrder(ip_order, ExtractTorIp(result[w].tor_ip))
    /\ ip_details' = LoggedDetails(ip_details, ip_usage',
                                   ExtractTorIp(result[w].tor_ip))
    /\ pc' = [pc EXCEPT ![w] = "get"]
    /\ cur' = [cur EXCEPT ![w] = NoName]
    /\ attempt_num' = [attempt_num EXCEPT ![w] = 0]
    /\ retry_step' = [retry_step EXCEPT ![w] = NoRetryStep]
    /\ ip_retry_attempt' = [ip_retry_attempt EXCEPT ![w] = 0]
    /\ backoff' = [backoff EXCEPT ![w] = 0]
    /\ result' = [result EXCEPT ![w] = NoResult]
    /\ over_at_start' = [over_at_start EXCEPT ![w] = {}]
    /\ UNCHANGED <<parse_vars, lock_locals, status_locals, observed_ip, fixed_vars, tracker_locals, progress_vars, researcher_queue, results,
                   successful_researchers, tracker_file, coord_vars>>

\* 695-710: a failed attempt
StatusRetry(w) ==
    /\ Running /\ pc[w] = "status_retry"
    /\ \E o \in WriteOutcomes : UpdateResearcherStatus(cur[w], "failed_retrying", o)
    /\ pc' = [pc EXCEPT ![w] = "loop"]
    /\ ip_retry_attempt' = [ip_retry_attempt EXCEPT ![w] = 0]
    /\ backoff' = [backoff EXCEPT ![w] = 0]
    /\ result' = [result EXCEPT ![w] = NoResult]
    /\ over_at_start' = [over_at_start EXCEPT ![w] = {}]
    /\ UNCHANGED <<parse_vars, lock_locals, status_locals, observed_ip, fixed_vars, tracker_locals, researcher_queue, results, successful_researchers,
                   ip_usage, ip_order, ip_details, tracker_file, cur, attempt_num, retry_step, coord_vars>>

(* ---------------- update_researcher_status, step by step ---------------- *)

\* The calls of update_researcher_status that the worker threads make, with
\* the body of the call (380-409) followed statement by statement under
\* progress_lock (SpecCheckpoint).

\* the status that the call at the position of thread w names: 663 after a
\* success, 710 after a failure, 608 when the retries are used up
StatusSite(w) ==
    CASE pc[w] = "status_success" -> "success"
      [] pc[w] = "status_retry" -> "failed_retrying"
      [] /\ pc[w] = "loop" /\ cur[w] \notin successful_researchers
         /\ RetriesExhausted(attempt_num[w] + 1) -> "failed_exhausted"
      [] OTHER -> "none"

\* a faulty lock that never excludes
ProgressLockFreeAlways(holder) == TRUE

\* 380: self.progress_lock, a threading.Lock, is free to acquire
ProgressLockFree(holder) == holder = NoHolder

\* 380: the call is made and the lock acquired
StatusCall(w) ==
    /\ Running /\ status_pc[w] = "idle"
    /\ StatusSite(w) # "none"
    /\ ProgressLockFree(progress_lock)
    /\ progress_lock' = w
    /\ status_args' = [status_args EXCEPT ![w] =
                          [name |-> cur[w], status |-> StatusSite(w)]]
    /\ requested' = [requested EXCEPT ![cur[w]] = StatusSite(w)]
    /\ status_pc' = [status_pc EXCEPT ![w] = "remove"]
    /\ UNCHANGED <<parse_vars, lock_locals, observed_ip, fixed_vars, tracker_locals, progress_vars,
                   researcher_queue, results, successful_researchers, ip_usage,
                   ip_order, ip_details, tracker_file, pc, worker_locals, coord_vars>>

\* 381-388: the name is removed from every list that holds it
StatusRemove(w) ==
    /\ Running /\ status_pc[w] = "remove"
    /\ progress_data' = [progress_data EXCEPT
            !.pending = ListRemove(@, status_args[w].name),
            !.success = ListRemove(@, status_args[w].name),
            !.failed_retrying = ListRemove(@, status_args[w].name),
            !.failed_exhausted = ListRemove(@, status_args[w].name)]
    /\ status_pc' = [status_pc EXCEPT ![w] = "append"]
    /\ UNCHANGED <<parse_vars, lock_locals, observed_ip, fixed_vars, tracker_locals, progress_file,
                   last_update, write_failures, researcher_queue, results,
                   successful_researchers, ip_usage, ip_order, ip_details,
                   tracker_file, pc, worker_locals, coord_vars, progress_lock,
                   status_args, requested>>

\* 390-399: the name is appended to the list of the new status
StatusAppend(w) ==
    /\ Running /\ status_pc[w] = "append"
    /\ progress_data' = [progress_data EXCEPT
            ![status_args[w].status] = Append(@, status_args[w].name)]
    /\ status_pc' = [status_pc EXCEPT ![w] = "counts"]
    /\ UNCHANGED <<parse_vars, lock_locals, observed_ip, fixed_vars, tracker_locals, progress_file,
                   last_update, write_failures, researcher_queue, results,
                   successful_researchers, ip_usage, ip_order, ip_details,
                   tracker_file, pc, worker_locals, coord_vars, progress_lock,
                   status_args, requested>>

\* 401-406: the counts are recomputed from the lists
StatusCounts(w) ==
    /\ Running /\ status_pc[w] = "counts"
    /\ progress_data' = [progress_data EXCEPT !.counts = CountsOf(progress_data)]
    /\ status_pc' = [status_pc EXCEPT ![w] = "write"]
    /\ UNCHANGED <<parse_vars, lock_locals, observed_ip, fixed_vars, tracker_locals, progress_file,
                   last_update, write_failures, researcher_queue, results,
                   successful_researchers, ip_usage, ip_order, ip_details,
                   tracker_file, pc, worker_locals, coord_vars, progress_lock,
                   status_args, requested>>

\* 408-409: the file is written, the lock released and the call returns; the
\* thread goes on after its call: to the ledger call (665), to the next turn
\* of the loop (599) or, after the break at 609, to task_done and queue.get
StatusWrite(w) ==
    /\ Running /\ status_pc[w] = "write"
    /\ \E o \in WriteOutcomes :
         /\ WriteAllowed(o)
         /\ progress_file' = WrittenFile(progress_file, progress_data, o)
         /\ last_update' = [name |-> status_args[w].name,
                            status |-> status_args[w].status,
                            write_ok |-> (o = "ok")]
         /\ write_failures' = IF o = "ok" THEN write_failures ELSE write_failures + 1
    /\ progress_lock' = NoHolder
    /\ status_pc' = [status_pc EXCEPT ![w] = "idle"]
    /\ status_args' = [status_args EXCEPT ![w] = NoStatusArgs]
    /\ CASE status_args[w].status = "success" ->
              /\ pc' = [pc EXCEPT ![w] = "log_ip"]
              /\ UNCHANGED worker_locals
         [] status_args[w].status = "failed_retrying" ->
              /\ pc' = [pc EXCEPT ![w] = "loop"]
              /\ ip_retry_attempt' = [ip_retry_attempt EXCEPT ![w] = 0]
              /\ backoff' = [backoff EXCEPT ![w] = 0]
              /\ result' = [result EXCEPT ![w] = NoResult]
              /\ over_at_start' = [over_at_start EXCEPT ![w] = {}]
              /\ UNCHANGED <<cur, attempt_num, retry_step>>
         [] OTHER ->
              /\ pc' = [pc EXCEPT ![w] = "get"]
              /\ cur' = [cur EXCEPT ![w] = NoName]
              /\ attempt_num' = [attempt_num EXCEPT ![w] = 0]
              /\ retry_step' = [retry_step EXCEPT ![w] = NoRetryStep]
              /\ UNCHANGED <<ip_retry_attempt, backoff, result, over_at_start>>
    /\ UNCHANGED <<parse_vars, lock_locals, observed_ip, fixed_vars, tracker_locals, progress_data,
                   researcher_queue, results, successful_researchers, ip_usage,
                   ip_order, ip_details, tracker_file, coord_vars, requested>>

\* 599-643: the head of the retry loop where it makes no status call
LoopHeadOn(w) == StatusSite(w) # "failed_exhausted" /\ LoopHead(w)

\* a worker thread whose status calls are followed step by step
WorkerStatus(w) ==
    \/ Dequeue(w) \/ WorkerExit(w) \/ LoopHeadOn(w) \/ Gate(w) \/ Scrape(w)
    \/ RecordResult(w) \/ AddSuccess(w) \/ LogIp(w)
    \/ StatusCall(w) \/ StatusRemove(w) \/ StatusAppend(w) \/ StatusCounts(w)
    \/ StatusWrite(w)

Worker(w) ==
    \/ Dequeue(w) \/ WorkerExit(w) \/ LoopHead(w) \/ Gate(w) \/ Scrape(w)
    \/ RecordResult(w) \/ AddSuccess(w) \/ StatusSuccess(w) \/ LogIp(w)
    \/ StatusRetry(w)

Coordinator ==
    \/ Start \/ PollSuccess \/ PollAlive \/ Join \/ Drain \/ SaveTracker \/ Final

\* the coordinator whose joins do not time out
CoordinatorJoined ==
    \/ Start \/ PollSuccess \/ PollAlive \/ JoinEnded \/ Drain \/ SaveTracker
    \/ Final

Interrupt == SignalArrives \/ SignalExit

Raises(w) == GateRaises(w) \/ ScrapeRaises(w)

\* a worker thread whose identity requests before retries succeed or raise
WorkerRetry(w) ==
    \/ Dequeue(w) \/ WorkerExit(w) \/ LoopHeadRetry(w) \/ Gate(w) \/ Scrape(w)
    \/ RecordResult(w) \/ AddSuccess(w) \/ StatusSuccess(w) \/ LogIp(w)
    \/ StatusRetry(w)

\* a worker thread whose gate is followed step by step
WorkerGate(w) ==
    \/ Dequeue(w) \/ WorkerExit(w) \/ LoopHead(w) \/ GateObserve(w) \/ GateDecide(w)
    \/ Scrape(w) \/ RecordResult(w) \/ AddSuccess(w) \/ StatusSuccess(w) \/ LogIp(w)
    \/ StatusRetry(w)

\* a run that no signal interrupts
Next == Coordinator \/ \E w \in Threads : Worker(w)
\* a run that SIGINT or SIGTERM may interrupt
NextSignal == Next \/ Interrupt
\* a run from the last step of the constructor on
NextStartup == Construct \/ Next
\* a run with the outcomes of the identity requests before retries
NextRetry == Coordinator \/ \E w \in Threads : WorkerRetry(w)
\* a run whose joins do not time out
NextLive == CoordinatorJoined \/ \E w \in Threads : Worker(w)
\* a run with the status calls step by step
NextCheckpoint == Coordinator \/ \E w \in Threads : WorkerStatus(w)
\* a run with the gate step by step
NextGate == Coordinator \/ \E w \in Threads : WorkerGate(w)
\* the threads from the start of the run to the end of the gate of their
\* first attempts
NextBackoff ==
    \/ Start
    \/ \E w \in Threads : Dequeue(w) \/ LoopHead(w) \/ GateBackoff(w)
\* a run in which attempts may raise
NextRaise == Next \/ \E w \in Threads : Raises(w)

Spec == Init /\ [][Next]_vars
SpecFresh == InitFresh /\ [][Next]_vars
SpecResume == InitResume /\ [][Next]_vars
SpecSignal == InitFresh /\ [][NextSignal]_vars
SpecRaise == InitFresh /\ [][NextRaise]_vars
SpecStartup == InitStartup /\ [][NextStartup]_vars
SpecGate == InitFresh /\ [][NextGate]_vars
SpecRetry == InitFresh /\ [][NextRetry]_vars
SpecBackoff == InitBackoff /\ [][NextBackoff]_vars
SpecCheckpoint == InitFresh /\ [][NextCheckpoint]_vars
\* a fresh run in which the main thread and every worker thread keep being
\* scheduled, every call returns and the joins do not time out
SpecLive ==
    /\ InitFresh /\ [][NextLive]_vars
    /\ WF_vars(CoordinatorJoined)
    /\ \A w \in Threads : WF_vars(Worker(w))

(* ---------------- the usage ledger, call by call ---------------- *)

\* The IPTracker alone, with its calls followed step by step: the worker
\* threads call log_successful_scrape, the main thread calls save_to_file,
\* constructs a second IPTracker on the same file, and (SpecLedgerReload)
\* calls load_existing_data on the live ledger.

runner_vars == <<fixed_vars, progress_vars, researcher_queue, results,
                 successful_researchers, pc, worker_locals, coord_vars>>

\* everything but the places and the holders of the locks
run_vars_but_locks == <<runner_vars, ip_usage, ip_order, ip_details, tracker_file,
                        tracker_locals, observed_ip, status_locals, parse_vars>>

\* a faulty lock that never excludes
LockFreeAlways(holder) == TRUE

\* threading.Lock: free to acquire
LockFree(holder) == holder = NoHolder

\* log_successful_scrape is called with an address or with none
LogCall(w) ==
    /\ tracker_pc[w] = "idle"
    /\ \E ip_address \in Identities \cup {NoIP} :
         /\ ip_address # NoIP => SumUsage(log_calls) < MaxLogCalls
         /\ call_args' = [call_args EXCEPT ![w] =
                              [ip_address |-> ip_address, read |-> 0]]
         /\ log_calls' = IF ip_address = NoIP THEN log_calls
                         ELSE [log_calls EXCEPT ![ip_address] = @ + 1]
    /\ tracker_pc' = [tracker_pc EXCEPT ![w] = "log_check"]
    /\ UNCHANGED <<parse_vars, lock_locals, status_locals, observed_ip, runner_vars, ip_usage, ip_order, ip_details, tracker_file, lock,
                   save_data, sync, tracker2>>

\* 60-64: without an address the call returns
LogCheck(w) ==
    /\ tracker_pc[w] = "log_check"
    /\ IF call_args[w].ip_address = NoIP
       THEN /\ tracker_pc' = [tracker_pc EXCEPT ![w] = "idle"]
            /\ call_args' = [call_args EXCEPT ![w] = NoArgs]
       ELSE /\ tracker_pc' = [tracker_pc EXCEPT ![w] = "log_lock"]
            /\ UNCHANGED call_args
    /\ UNCHANGED <<parse_vars, lock_locals, status_locals, observed_ip, runner_vars, ip_usage, ip_order, ip_details, tracker_file, lock,
                   save_data, log_calls, sync, tracker2>>

\* 66-67: the lock is taken and the counter read
LogAcquire(w) ==
    /\ tracker_pc[w] = "log_lock"
    /\ LockFree(lock)
    /\ lock' = w
    /\ call_args' = [call_args EXCEPT ![w].read =
                         GetIpUsageCount(ip_usage, call_args[w].ip_address)]
    /\ tracker_pc' = [tracker_pc EXCEPT ![w] = "log_incr"]
    /\ UNCHANGED <<parse_vars, lock_locals, status_locals, observed_ip, runner_vars, ip_usage, ip_order, ip_details, tracker_file,
                   save_data, log_calls, sync, tracker2>>

\* 67: the incremented counter is stored
LogIncrement(w) ==
    /\ tracker_pc[w] = "log_incr"
    /\ ip_usage' = [ip_usage EXCEPT ![call_args[w].ip_address] =
                       Incremented(call_args[w].read)]
    /\ ip_order' = LoggedOrder(ip_order, call_args[w].ip_address)
    /\ sync' = "none"
    /\ tracker_pc' = [tracker_pc EXCEPT ![w] = "log_details"]
    /\ UNCHANGED <<parse_vars, lock_locals, status_locals, observed_ip, runner_vars, ip_details, tracker_file, lock, call_args,
                   save_data, log_calls, tracker2>>

\* 69-84: the details are updated, the lock is released, the call returns
LogDetails(w) ==
    /\ tracker_pc[w] = "log_details"
    /\ ip_details' = LoggedDetails(ip_details, ip_usage, call_args[w].ip_address)
    /\ lock' = IF lock = w THEN NoHolder ELSE lock
    /\ sync' = "none"
    /\ tracker_pc' = [tracker_pc EXCEPT ![w] = "idle"]
    /\ call_args' = [call_args EXCEPT ![w] = NoArgs]
    /\ UNCHANGED <<parse_vars, lock_locals, status_locals, observed_ip, runner_vars, ip_usage, ip_order, tracker_file, save_data,
                   log_calls, tracker2>>

\* save_to_file 95: len(self.ip_usage), read without the lock
SaveLen ==
    /\ tracker_pc[MainThread] = "idle"
    /\ save_data' = [NoData EXCEPT !.total_unique_ips = UniqueIps(ip_usage)]
    /\ sync' = "building"
    /\ tracker_pc' = [tracker_pc EXCEPT ![MainThread] = "save_sum"]
    /\ UNCHANGED <<parse_vars, lock_locals, status_locals, observed_ip, runner_vars, ip_usage, ip_order, ip_details, tracker_file, lock,
                   call_args, log_calls, tracker2>>

\* 96: sum(self.ip_usage.values()), read without the lock
SaveSum ==
    /\ tracker_pc[MainThread] = "save_sum"
    /\ save_data' = [save_data EXCEPT !.total_successful_scrapes = SumUsage(ip_usage)]
    /\ tracker_pc' = [tracker_pc EXCEPT ![MainThread] = "save_copy"]
    /\ UNCHANGED <<parse_vars, lock_locals, status_locals, observed_ip, runner_vars, ip_usage, ip_order, ip_details, tracker_file, lock,
                   call_args, log_calls, sync, tracker2>>

\* 97-98: dict(self.ip_usage) is copied without the lock; ip_details is
\* taken by reference
SaveCopy ==
    /\ tracker_pc[MainThread] = "save_copy"
    /\ save_data' = [save_data EXCEPT !.ip_usage = ip_usage,
                                      !.ip_order = ip_order]
    /\ tracker_pc' = [tracker_pc EXCEPT ![MainThread] = "save_lock"]
    /\ UNCHANGED <<parse_vars, lock_locals, status_locals, observed_ip, runner_vars, ip_usage, ip_order, ip_details, tracker_file, lock,
                   call_args, log_calls, sync, tracker2>>

\* 102: the lock is taken
SaveAcquire ==
    /\ tracker_pc[MainThread] = "save_lock"
    /\ LockFree(lock)
    /\ lock' = MainThread
    /\ tracker_pc' = [tracker_pc EXCEPT ![MainThread] = "save_dump"]
    /\ UNCHANGED <<parse_vars, lock_locals, status_locals, observed_ip, runner_vars, ip_usage, ip_order, ip_details, tracker_file,
                   call_args, save_data, log_calls, sync, tracker2>>

\* 103-107: the file is written with ip_details as it is now, the lock is
\* released
SaveDump ==
    /\ tracker_pc[MainThread] = "save_dump"
    /\ \E o \in WriteOutcomes :
         /\ tracker_file' = WrittenTracker(tracker_file,
                                [save_data EXCEPT !.ip_details = ip_details], o)
         /\ sync' = IF o = "ok" /\ sync = "building" THEN "saved" ELSE "none"
    /\ lock' = IF lock = MainThread THEN NoHolder ELSE lock
    /\ save_data' = NoData
    /\ tracker_pc' = [tracker_pc EXCEPT ![MainThread] = "idle"]
    /\ UNCHANGED <<parse_vars, lock_locals, status_locals, observed_ip, runner_vars, ip_usage, ip_order, ip_details, call_args, log_calls,
                   tracker2>>

\* IPTracker(tracker_file) 16-21: a second ledger is constructed on the file
Reconstruct ==
    /\ tracker_pc[MainThread] = "idle"
    /\ tracker2' = LoadExistingData(EmptyUsage, <<>>, EmptyDetails,
                                    tracker_file).ip_usage
    /\ sync' = IF sync \in {"saved", "reloaded"} THEN "reloaded" ELSE "none"
    /\ UNCHANGED <<parse_vars, lock_locals, status_locals, observed_ip, runner_vars, ip_usage, ip_order, ip_details, tracker_file, lock,
                   tracker_pc, call_args, save_data, log_calls>>

\* load_existing_data 23-37, called on the live ledger (it takes no lock)
Reload ==
    /\ tracker_pc[MainThread] = "idle"
    /\ LET loaded == LoadExistingData(ip_usage, ip_order, ip_details,
                                      tracker_file) IN
       /\ ip_usage' = loaded.ip_usage
       /\ ip_order' = loaded.ip_order
       /\ ip_details' = loaded.ip_details
    /\ sync' = "none"
    /\ UNCHANGED <<parse_vars, lock_locals, status_locals, observed_ip, runner_vars, tracker_file, lock, tracker_pc, call_args,
                   save_data, log_calls, tracker2>>

LogSuccessfulScrape(w) ==
    LogCall(w) \/ LogCheck(w) \/ LogAcquire(w) \/ LogIncrement(w) \/ LogDetails(w)

SaveToFile == SaveLen \/ SaveSum \/ SaveCopy \/ SaveAcquire \/ SaveDump

NextLedger ==
    \/ \E w \in Threads : LogSuccessfulScrape(w)
    \/ SaveToFile
    \/ Reconstruct
NextLedgerReload == NextLedger \/ Reload

SpecLedger == InitFresh /\ [][NextLedger]_vars
SpecLedgerReload == InitFresh /\ [][NextLedgerReload]_vars

(* ---------------- the locks ---------------- *)

\* The threads as far as their locks and waits go (SpecLocks).  A place of
\* the code is a with-block, with the blocks nested in it, or a stretch
\* without a lock; it has the locks it takes, outermost first, the places
\* that can follow it, and wait: the thread blocks there (queue.get with a
\* timeout, time.sleep, join).  Which place follows is left open: it depends
\* on the queue, the results and the scrape, which are not followed here.

Place(locks, next, wait) == [locks |-> locks, next |-> next, wait |-> wait]

\* a faulty ledger call that logs under print_lock inside the ledger lock
LogScrapeLocksPrinting == <<"lock", "print_lock">>

\* ip_tracker.py 66: log_successful_scrape takes the ledger lock
LogScrapeLocks == <<"lock">>

\* _queue_worker_thread and _run_single_researcher_scrape_by_scholar_id, for
\* thread w
WorkerPlace(w, place) ==
    CASE place = "unstarted" ->       \* 750-758: the thread is started
             Place(<<>>, {"get"}, FALSE)
      [] place = "get" ->             \* 580: queue.get(timeout=...)
             Place(<<>>, {"results_new", "queue_empty", "queue_refilled"}, TRUE)
      [] place = "queue_empty" ->     \* 582-589: empty under queue_lock, break
             Place(<<"queue_lock", "print_lock">>, {"exited"}, FALSE)
      [] place = "queue_refilled" ->  \* 582-583, 590-591: continue
             Place(<<"queue_lock">>, {"get"}, FALSE)
      [] place = "results_new" ->     \* 593-595
             Place(<<"results_lock">>, {"loop"}, FALSE)
      [] place = "loop" ->            \* 599-602
             Place(<<>>, {"exhausted_log", "attempt_log", "task_done"}, FALSE)
      [] place = "exhausted_log" ->   \* 603-607
             Place(<<"print_lock">>, {"exhausted_status"}, FALSE)
      [] place = "exhausted_status" -> \* 608, 380
             Place(<<"progress_lock">>, {"task_done"}, FALSE)
      [] place = "attempt_log" ->     \* 611-620
             Place(<<"print_lock">>, {"rotate_log", "rotate_failed_log", "gate_log"},
                   FALSE)
      [] place = "rotate_log" ->      \* 627-633: get_current_ip and two lines
             Place(<<"print_lock">>, {"retry_wait"}, FALSE)
      [] place = "rotate_failed_log" -> \* 638-642
             Place(<<"print_lock">>, {"retry_wait"}, FALSE)
      [] place = "retry_wait" ->      \* 635, 643: time.sleep
             Place(<<>>, {"gate_log"}, TRUE)
      [] place = "gate_log" ->        \* 458-468
             Place(<<"print_lock">>, {"identity_log", "raised_log"}, FALSE)
      [] place = "identity_log" ->    \* 472-475; 477-479: a stagger for w > 1
             Place(<<"print_lock">>,
                   IF w > 1 THEN {"stagger_log"}
                   ELSE {"usage_count", "scrape", "raised_log"}, FALSE)
      [] place = "stagger_log" ->     \* 480-484
             Place(<<"print_lock">>, {"stagger_wait"}, FALSE)
      [] place = "stagger_wait" ->    \* 485: time.sleep
             Place(<<>>, {"usage_count", "scrape", "raised_log"}, TRUE)
      [] place = "usage_count" ->     \* 492, ip_tracker.py 158
             Place(<<"lock">>, {"over_limit_log", "scrape"}, FALSE)
      [] place = "over_limit_log" ->  \* 495-503
             Place(<<"print_lock">>, {"backoff_wait"}, FALSE)
      [] place = "backoff_wait" ->    \* 506: time.sleep
             Place(<<>>, {"gate_log"}, TRUE)
      [] place = "scrape" ->          \* 509-546: the scraper takes no lock
             Place(<<>>, {"record", "raised_log"}, FALSE)
      [] place = "raised_log" ->      \* 549-553
             Place(<<"print_lock">>, {"record"}, FALSE)
      [] place = "record" ->          \* 656-657
             Place(<<"results_lock">>, {"add_success", "failed_log"}, FALSE)
      [] place = "add_success" ->     \* 660-661
             Place(<<"results_lock">>, {"success_status"}, FALSE)
      [] place = "success_status" ->  \* 663, 380
             Place(<<"progress_lock">>, {"log_scrape", "success_log"}, FALSE)
      [] place = "log_scrape" ->      \* 668-671
             Place(LogScrapeLocks, {"success_log"}, FALSE)
      [] place = "success_log" ->     \* 673-693
             Place(<<"print_lock">>, {"task_done"}, FALSE)
      [] place = "failed_log" ->      \* 696-708
             Place(<<"print_lock">>, {"retrying_status"}, FALSE)
      [] place = "retrying_status" -> \* 710, 380
             Place(<<"progress_lock">>, {"loop"}, FALSE)
      [] place = "task_done" ->       \* 712
             Place(<<>>, {"get"}, FALSE)
      [] place = "unexpected_log" ->  \* 714-721
             Place(<<"print_lock">>, {"get"}, FALSE)
      [] OTHER ->                     \* "exited": the thread has ended
             Place(<<>>, {}, FALSE)

\* process_researchers_from_csv and _process_researchers_with_queue, the
\* main thread
MainPlace(place) ==
    CASE place = "initialize" ->      \* 844-846, 357
             Place(<<"progress_lock">>, {"enqueue"}, FALSE)
      [] place = "enqueue" ->         \* 746-748
             Place(<<"queue_lock">>, {"poll_sleep"}, FALSE)
      [] place = "poll_sleep" ->      \* 763: time.sleep
             Place(<<>>, {"progress_report", "completion_test"}, TRUE)
      [] place = "progress_report" -> \* 767, 421
             Place(<<"progress_lock">>, {"completion_test"}, FALSE)
      [] place = "completion_test" -> \* 770-781
             Place(<<"results_lock">>, {"poll_sleep", "join"}, FALSE)
      [] place = "join" ->            \* 783-786: join(timeout=...)
             Place(<<>>, {"drain"}, TRUE)
      [] place = "drain" ->           \* 788-793
             Place(<<>>, {"save"}, FALSE)
      [] place = "save" ->            \* 795-797, ip_tracker.py 102
             Place(<<"print_lock", "lock">>, {"final_report"}, FALSE)
      [] place = "final_report" ->    \* 859, 421
             Place(<<"progress_lock">>, {"usage_summary"}, FALSE)
      [] place = "usage_summary" ->   \* 862, ip_tracker.py 111
             Place(<<"lock">>, {"returned"}, FALSE)
      [] OTHER ->                     \* "returned"
             Place(<<>>, {}, FALSE)

PlaceAt(c) ==
    IF c = MainThread THEN MainPlace(lock_at[c]) ELSE WorkerPlace(c, lock_at[c])

\* 714: an exception out of the body of the worker loop is caught and
\* logged; a with-block it passes has released its lock
MayRaise(c) == c # MainThread /\ lock_at[c] \notin {"unstarted", "exited"}

\* the worker threads are started once the queue is filled (746-758)
MayLeave(c) ==
    (c # MainThread /\ lock_at[c] = "unstarted") =>
        lock_at[MainThread] \notin {"initialize", "enqueue"}

\* the next with of the place is entered: the lock is acquired when free
Acquire(c) ==
    /\ ~lock_leaving[c]
    /\ lock_depth[c] < Len(PlaceAt(c).locks)
    /\ LockFree(lock_holder[PlaceAt(c).locks[lock_depth[c] + 1]])
    /\ lock_holder' = [lock_holder EXCEPT ![PlaceAt(c).locks[lock_depth[c] + 1]] = c]
    /\ lock_depth' = [lock_depth EXCEPT ![c] = @ + 1]
    /\ UNCHANGED <<run_vars_but_locks, lock_at, lock_leaving>>

\* the body of the innermost with runs (log lines, a list update, a file
\* write, at 628 a request with a timeout) and ends
Inside(c) ==
    /\ ~lock_leaving[c]
    /\ Len(PlaceAt(c).locks) > 0
    /\ lock_depth[c] = Len(PlaceAt(c).locks)
    /\ lock_leaving' = [lock_leaving EXCEPT ![c] = TRUE]
    /\ UNCHANGED <<run_vars_but_locks, lock_holder, lock_at, lock_depth>>

\* a with-block is left: its lock is released, the innermost first
Release(c) ==
    /\ lock_leaving[c]
    /\ lock_depth[c] > 0
    /\ lock_holder' = [lock_holder EXCEPT ![PlaceAt(c).locks[lock_depth[c]]] = NoHolder]
    /\ lock_depth' = [lock_depth EXCEPT ![c] = @ - 1]
    /\ UNCHANGED <<run_vars_but_locks, lock_at, lock_leaving>>

\* the thread goes on to a place that follows, a wait having ended
Proceed(c) ==
    /\ lock_depth[c] = 0
    /\ lock_leaving[c] \/ Len(PlaceAt(c).locks) = 0
    /\ MayLeave(c)
    /\ \E place \in PlaceAt(c).next \cup (IF MayRaise(c) THEN {"unexpected_log"} ELSE {}) :
         lock_at' = [lock_at EXCEPT ![c] = place]
    /\ lock_leaving' = [lock_leaving EXCEPT ![c] = FALSE]
    /\ UNCHANGED <<run_vars_but_locks, lock_holder, lock_depth>>

NextLocks == \E c \in Callers : Acquire(c) \/ Inside(c) \/ Release(c) \/ Proceed(c)

SpecLocks == InitFresh /\ [][NextLocks]_vars

(* ---------------- parse_author_profile, step by step ---------------- *)

\* One call of TorScholarSearch.parse_author_profile (scraper.py 157-245) on
\* a profile page.  A row of the page has no link at all (it is skipped), a
\* title link without href, or a title link with the URL of the paper page.
\* visit_paper_page returns None or a page, which has a description or not.

\* the most rows a profile page has
MaxRows == 3
\* scraper.py 25, 26
DEFAULT_PAGE_SIZE == 50
CONSECUTIVE_PAPER_FAILURES_THRESHOLD == 2

RowKinds == {"no_link", "no_url", "url"}
ProfileRows == UNION {[1..n -> RowKinds] : n \in 0..MaxRows}
NoPage == "None"
PaperPages == {"page with description", "page without description"}

\* 165-179: paper_rows[:DEFAULT_PAGE_SIZE]
RowsTaken(rows) ==
    IF Len(rows) <= DEFAULT_PAGE_SIZE THEN rows ELSE SubSeq(rows, 1, DEFAULT_PAGE_SIZE)

\* extract_paper_description 133-155
ExtractPaperDescription(content) ==
    IF content = "page with description" THEN "the description of the page"
    ELSE DescriptionNotAvailable

\* 230-239: the entry of a paper (title, url, citations and year are those
\* of the row)
PaperEntry(i, text) == [rank |-> i, description |-> text]

\* 245: return papers if papers else None
Returned(list) ==
    IF list = <<>> THEN [kind |-> "None", papers |-> <<>>]
    ELSE [kind |-> "list", papers |-> list]

\* a faulty loop that goes on after a page was fetched
FetchGoesOnAfterSuccess(n, done) == n < max_retries

\* 208-213: for attempt in range(self.max_retries), left by break at the
\* first page fetched
FetchGoesOn(n, done) == n < max_retries /\ ~done

run_vars == <<runner_vars, ip_usage, ip_order, ip_details, tracker_file,
              tracker_locals, observed_ip, status_locals, lock_locals>>

\* 179-206, 245: the loop over the rows takes the next row, or ends
ParseRow ==
    /\ ppc = "row"
    /\ IF row_i > Len(RowsTaken(paper_rows))
       THEN /\ ppc' = "returned"
            /\ parse_result' = Returned(papers)
            /\ UNCHANGED <<row_i, paper_attempt, fetched, description, rotations,
                           papers>>
       ELSE /\ paper_attempt' = 0
            /\ rotations' = 0
            /\ fetched' = FALSE
            /\ description' = DescriptionNotAvailable
            /\ UNCHANGED parse_result
            /\ CASE paper_rows[row_i] = "no_link" ->
                       /\ row_i' = row_i + 1
                       /\ UNCHANGED <<ppc, papers>>
                 [] paper_rows[row_i] = "no_url" ->
                       /\ papers' = Append(papers, PaperEntry(row_i, DescriptionNotAvailable))
                       /\ row_i' = row_i + 1
                       /\ UNCHANGED ppc
                 [] paper_rows[row_i] = "url" ->
                       /\ ppc' = "fetch"
                       /\ UNCHANGED <<row_i, papers>>
    /\ UNCHANGED <<run_vars, paper_rows, consecutive_failures, pages_fetched>>

\* 208-218: one turn of the fetch loop: the page is visited; a page ends the
\* loop, a failure is followed by get_new_identity
ParseFetch ==
    /\ ppc = "fetch"
    /\ IF FetchGoesOn(paper_attempt, fetched)
       THEN \E paper_content \in PaperPages \cup {NoPage} :
              /\ paper_attempt' = paper_attempt + 1
              /\ IF paper_content # NoPage
                 THEN /\ description' = ExtractPaperDescription(paper_content)
                      /\ fetched' = TRUE
                      /\ pages_fetched' = pages_fetched + 1
                      /\ UNCHANGED rotations
                 ELSE /\ rotations' = rotations + 1
                      /\ UNCHANGED <<description, fetched, pages_fetched>>
              /\ UNCHANGED ppc
       ELSE /\ ppc' = "after"
            /\ UNCHANGED <<paper_attempt, description, fetched, pages_fetched,
                           rotations>>
    /\ UNCHANGED <<run_vars, paper_rows, row_i, consecutive_failures, papers,
                   parse_result>>

\* 220-239: the failure counter, the abort, the entry of the paper
ParseAfter ==
    /\ ppc = "after"
    /\ consecutive_failures' = IF fetched THEN 0 ELSE consecutive_failures + 1
    /\ IF ~fetched /\ consecutive_failures' >= CONSECUTIVE_PAPER_FAILURES_THRESHOLD
       THEN /\ ppc' = "returned"
            /\ parse_result' = [kind |-> "None", papers |-> <<>>]
            /\ UNCHANGED <<papers, row_i>>
       ELSE /\ papers' = Append(papers, PaperEntry(row_i, description))
            /\ row_i' = row_i + 1
            /\ ppc' = "row"
            /\ UNCHANGED parse_result
    /\ UNCHANGED <<run_vars, paper_rows, paper_attempt, fetched, description,
                   rotations, pages_fetched>>

NextParse == ParseRow \/ ParseFetch \/ ParseAfter

\* the call on any profile page of at most MaxRows rows
InitParse ==
    \E rows \in ProfileRows :
        /\ InitRunner(FALSE, AbsentFile, "start", "running")
        /\ ParseStart(rows, "row")

SpecParse == InitParse /\ [][NextParse]_vars

(* ---------------- properties ---------------- *)

Occurrences(s, x) == Cardinality({i \in 1..Len(s) : s[i] = x})
InList(pd, status) == Range(pd[status])
Owned(n) == \E w \in Threads : cur[w] = n
Loaded == existing_progress.data
\* the worker threads exist and none has taken a task yet
WorkersStarting ==
    /\ cpc \in {"poll", "poll_alive"}
    /\ researcher_queue = researchers_data
    /\ results = <<>>

\* C1: in a fresh run, once initialize_progress_tracking has run, every seeded
\* name is in exactly one of the four status lists, exactly once, the lists
\* are pairwise disjoint and their lengths sum to total_researchers.
C1_Partition ==
    (~continue_mode /\ cpc # "start") =>
        /\ \A n \in Range(researchers_data) :
             Occurrences(progress_data.pending, n)
               + Occurrences(progress_data.success, n)
               + Occurrences(progress_data.failed_retrying, n)
               + Occurrences(progress_data.failed_exhausted, n) = 1
        /\ \A i, j \in 1..4 :
             i # j => InList(progress_data, StatusLists[i])
                        \cap InList(progress_data, StatusLists[j]) = {}
        /\ Len(progress_data.pending) + Len(progress_data.success)
             + Len(progress_data.failed_retrying)
             + Len(progress_data.failed_exhausted)
             = progress_data.total_researchers

C1_Witness ==
    /\ ~continue_mode
    /\ Len(progress_data.success) = 1
    /\ Len(progress_data.failed_exhausted) = 1

\* C2: no task ever has more than max_retries attempt records, and a task
\* that this run has given up (it is in failed_exhausted and no thread owns
\* it any more) has exactly max_retries of them.
C2_RetryBound ==
    \A n \in DOMAIN results :
        /\ Len(results[n]) <= max_retries
        /\ (n \in InList(progress_data, "failed_exhausted") /\ ~Owned(n))
               => Len(results[n]) = max_retries

C2_Witness ==
    \E n \in DOMAIN results :
        /\ n \in InList(progress_data, "failed_exhausted")
        /\ ~Owned(n)
        /\ Len(results[n]) = max_retries

\* C3: a success is never logged in the ledger against an identity whose
\* usage count was at or over max_requests_per_ip when the attempt passed the
\* gate.
C3_AdmissionCeiling ==
    [][\A w \in Threads :
          (pc[w] = "log_ip" /\ pc'[w] # "log_ip" /\ result[w].tor_ip # NoIP)
              => ExtractTorIp(result[w].tor_ip) \notin over_at_start[w]]_vars

\* C4: starting from an empty ledger, the usage count of every identity stays
\* at or under max_requests_per_ip.
C4_UsageCeiling ==
    \A ip \in Identities : ip_usage[ip] <= max_requests_per_ip

\* C5: a run resumed from a checkpoint that has T in success never enqueues T
\* and never attempts it.
C5_ResumeSkipsSuccess ==
    (continue_mode /\ LoadSucceeds(existing_progress)) =>
        \A T \in InList(Loaded, "success") :
            /\ T \notin Range(researchers_data)
            /\ T \notin Range(researcher_queue)
            /\ T \notin DOMAIN results
            /\ ~Owned(T)

C5_Witness ==
    /\ continue_mode /\ LoadSucceeds(existing_progress)
    /\ InList(Loaded, "success") # {}
    /\ \E n \in DOMAIN results : Len(results[n]) > 0

\* C6 as stated: a task the checkpoint has in failed_exhausted is never
\* enqueued and never attempted by the resumed run.
C6_ExhaustedStaysExcluded ==
    (continue_mode /\ LoadSucceeds(existing_progress)) =>
        \A T \in InList(Loaded, "failed_exhausted") :
            /\ T \notin Range(researcher_queue)
            /\ T \notin DOMAIN results
            /\ ~Owned(T)

\* C6 amended: a task the checkpoint has in failed_exhausted is seeded again
\* by the resumed run like every task that is not in success: once the run
\* has started it is in the queue, or a thread has taken it, or the shutdown
\* drain has.
C6_ExhaustedReseeded ==
    (continue_mode /\ LoadSucceeds(existing_progress) /\ cpc # "start") =>
        \A T \in InList(Loaded, "failed_exhausted") :
            /\ T \in Range(researchers_data)
            /\ \/ T \in Range(researcher_queue)
               \/ T \in DOMAIN results
               \/ T \in discarded

C6_Witness ==
    /\ continue_mode /\ LoadSucceeds(existing_progress)
    /\ \E T \in InList(Loaded, "failed_exhausted") :
         T \in DOMAIN results /\ Len(results[T]) > 0

C8_CompleteMeansAllSucceeded ==
    exit_reason = "complete" =>
        Range(researchers_data) \subseteq successful_researchers

\* C9: a resume whose checkpoint is missing or unreadable starts from a fresh
\* initialize: when the threads start, every task is pending and
\* total_researchers is the number of tasks.
C9_FallbackInitializes ==
    (continue_mode /\ ~LoadSucceeds(existing_progress) /\ WorkersStarting) =>
        /\ Range(researchers_data) \subseteq InList(progress_data, "pending")
        /\ progress_data.total_researchers = Len(researchers_data)

\* C10 as stated: on resume every task the checkpoint has in failed_retrying
\* or pending is in the queue and in the pending list when the threads start.
C10_RequeuedAsPending ==
    (continue_mode /\ LoadSucceeds(existing_progress) /\ WorkersStarting) =>
        \A T \in InList(Loaded, "failed_retrying") \cup InList(Loaded, "pending") :
            /\ T \in Range(researcher_queue)
            /\ T \in InList(progress_data, "pending")

\* C10 amended: on resume every task the checkpoint has in failed_retrying or
\* pending is in the queue when the threads start, and the progress data is
\* the loaded checkpoint unchanged: the task is still in the list the
\* checkpoint had it in.
C10_RequeuedInPlace ==
    (continue_mode /\ LoadSucceeds(existing_progress) /\ WorkersStarting) =>
        /\ progress_data = Loaded
        /\ \A T \in InList(Loaded, "failed_retrying") \cup InList(Loaded, "pending") :
             /\ T \in Range(researcher_queue)
             /\ (T \in InList(Loaded, "failed_retrying")
                   => T \in InList(progress_data, "failed_retrying"))

C10_Witness ==
    /\ continue_mode /\ LoadSucceeds(existing_progress) /\ WorkersStarting
    /\ InList(Loaded, "failed_retrying") # {}
    /\ InList(Loaded, "pending") # {}

\* every task of the run has reached success or failed_exhausted
AllTerminal ==
    Range(researchers_data) \subseteq
        InList(progress_data, "success") \cup InList(progress_data, "failed_exhausted")
\* the attempt of thread w has started and its outcome is not yet recorded
\* in full (attempt record, status transition, ledger)
InFlight(w) ==
    pc[w] \in {"gate", "scrape", "record", "add_success", "status_success",
               "log_ip", "status_retry"}

\* C11: when a signal ends the process before every task has reached success
\* or failed_exhausted, the exit status is not zero.
C11_SignalExitNonZero ==
    (cpc = "killed" /\ ~AllTerminal) => ExitStatus(cpc) # 0

\* C12: when a signal ends a process whose ledger has at least one success,
\* the ledger file on disk holds the in-memory ledger.
C12_SignalFlushesLedger ==
    (cpc = "killed" /\ \E ip \in Identities : ip_usage[ip] > 0) =>
        /\ tracker_file.kind = "ok"
        /\ tracker_file.data.ip_usage = ip_usage
        /\ tracker_file.data.ip_details = ip_details

\* C13: once the signal has arrived no thread takes a task off the queue, and
\* when the process ends no attempt is left unfinished or unrecorded.
C13_SignalDrainsInFlight ==
    [][/\ (cpc = "signal" =>
             \A w \in Threads : pc[w] = "get" => pc'[w] # "loop")
       /\ (cpc' = "killed" => \A w \in Threads : ~InFlight(w))]_vars

\* the ordinal of the first successful attempt of a list of attempt records
\* (0: none)
FirstSuccess(records) ==
    IF \E i \in 1..Len(records) : records[i].success
    THEN CHOOSE i \in 1..Len(records) :
             /\ records[i].success
             /\ \A j \in 1..(i - 1) : ~records[j].success
    ELSE 0

\* C14: at the end of a fresh run every task has attempt records; a task
\* whose attempts fail k-1 times and then succeed (k <= max_retries) is
\* successful with exactly k records, the last one the success (1 record when
\* the first attempt succeeds), and is in the success list of the checkpoint
\* once its thread has let go of it; a task is given up only after
\* max_retries failed attempts, so when no task fails that often every task
\* is successful and none is in failed_exhausted.
C14_RetryThenSucceed ==
    (~continue_mode /\ cpc = "done") =>
        /\ \A n \in Researchers :
             /\ n \in DOMAIN results
             /\ LET k == FirstSuccess(results[n]) IN
                IF k > 0
                THEN /\ k <= max_retries
                     /\ Len(results[n]) = k
                     /\ n \in successful_researchers
                     /\ ~Owned(n) => /\ n \in InList(progress_data, "success")
                                     /\ n \notin InList(progress_data, "failed_exhausted")
                ELSE /\ Len(results[n]) = max_retries
                     /\ n \notin successful_researchers
        /\ (\A n \in Researchers : FirstSuccess(results[n]) > 0) =>
               /\ successful_researchers = Researchers
               /\ InList(progress_data, "failed_exhausted") = {}

C14_Witness ==
    /\ ~continue_mode /\ cpc = "done"
    /\ successful_researchers = Researchers
    /\ \A w \in Threads : pc[w] = "exited"
    /\ \E n, m \in Researchers :
         /\ Len(results[n]) = 1
         /\ Len(results[m]) = max_retries
         /\ results[n][1].thread_id # results[m][1].thread_id

\* C15: the attempt ordinals in every task's list of attempt records are
\* 1, 2, ..., n in that order.
C15_OrdinalsInOrder ==
    \A n \in DOMAIN results :
        \A i \in 1..Len(results[n]) : results[n][i].attempt = i

C15_Witness ==
    \E n, m \in DOMAIN results :
        /\ n # m
        /\ Len(results[n]) = max_retries
        /\ Len(results[m]) = max_retries
        /\ results[n][1].thread_id # results[m][1].thread_id

\* no log_successful_scrape call is under way
NoLogUnderWay == \A w \in Threads : tracker_pc[w] = "idle"
\* the calls for ip that are at one of the places at
CallsAt(ip, at) ==
    Cardinality({w \in Threads :
                    call_args[w].ip_address = ip /\ tracker_pc[w] \in at})
\* a snapshot is one view of the ledger
Coherent(data) ==
    /\ data.total_successful_scrapes = SumUsage(data.ip_usage)
    /\ \A ip \in Identities :
         /\ data.ip_usage[ip] = data.ip_details[ip].total_usage
         /\ data.ip_usage[ip] = Len(data.ip_details[ip].usage_history)

\* C16: starting from the empty ledger, whenever the calls made so far have
\* returned, get_ip_usage_count(ip) is the number of log_successful_scrape
\* calls made with ip (0 for an address never logged, 0 for no address); and
\* a step changes the count of an address only inside a call made with that
\* address.
C16_CountsCalls ==
    [][/\ NoLogUnderWay' =>
            /\ \A ip \in Identities :
                 GetIpUsageCount(ip_usage', ip) = log_calls'[ip]
            /\ GetIpUsageCount(ip_usage', NoIP) = 0
       /\ \A ip \in Identities :
            GetIpUsageCount(ip_usage', ip) # GetIpUsageCount(ip_usage, ip) =>
                \E w \in Threads : /\ tracker_pc[w] = "log_incr"
                                    /\ call_args[w].ip_address = ip]_vars

C16_Witness ==
    /\ NoLogUnderWay
    /\ \E a, b, c \in Identities :
         /\ GetIpUsageCount(ip_usage, a) = 2 /\ log_calls[a] = 2
         /\ GetIpUsageCount(ip_usage, b) = 1 /\ log_calls[b] = 1
         /\ GetIpUsageCount(ip_usage, c) = 0 /\ log_calls[c] = 0

\* C17: when save_to_file has written the file from a ledger that no call
\* changed while it ran, and a second IPTracker is then constructed on the
\* file with the ledger still unchanged, the second ledger reports the same
\* usage count for every address.
C17_SaveReloadRoundTrip ==
    sync = "reloaded" =>
        \A ip \in Identities :
            GetIpUsageCount(tracker2, ip) = GetIpUsageCount(ip_usage, ip)

C17_Witness ==
    /\ sync = "reloaded"
    /\ \E a, b \in Identities :
         GetIpUsageCount(tracker2, a) = 2 /\ GetIpUsageCount(tracker2, b) = 1

\* C18: no step of log_successful_scrape, save_to_file or load_existing_data
\* lowers the usage count of an address.
C18_UsageNeverDecreases ==
    [][\A ip \in Identities :
          GetIpUsageCount(ip_usage', ip) >= GetIpUsageCount(ip_usage, ip)]_vars

\* C19: concurrent log_successful_scrape calls lose no increment: the usage
\* count of an address is the number of calls made with it less those that
\* have not yet stored their increment, and its usage_history has one entry
\* for each call made less those that have not yet appended theirs; N calls
\* that have returned have added exactly N to the count and N entries.
C19_NoLostIncrement ==
    \A ip \in Identities :
        /\ ip_usage[ip] =
              log_calls[ip] - CallsAt(ip, {"log_check", "log_lock", "log_incr"})
        /\ Len(ip_details[ip].usage_history) =
              log_calls[ip]
                - CallsAt(ip, {"log_check", "log_lock", "log_incr", "log_details"})

C19_Witness ==
    \E ip \in Identities : \E w1, w2 \in Threads :
        /\ tracker_pc[w1] = "log_details" /\ call_args[w1].ip_address = ip
        /\ tracker_pc[w2] = "log_lock" /\ call_args[w2].ip_address = ip
        /\ ip_usage[ip] = 2
        /\ tracker_pc[MainThread] = "save_copy"

\* C20: every snapshot that save_to_file has written is one view of the
\* ledger: its total_successful_scrapes is the sum of its ip_usage, and for
\* every address its ip_usage equals the total_usage and the length of the
\* usage_history of its ip_details.
C20_SnapshotCoherent ==
    tracker_file.kind = "ok" => Coherent(tracker_file.data)

\* the successes recorded for ip when no caller holds the lock: the calls
\* made with it less those that still wait for the lock
Recorded(ip) == log_calls[ip] - CallsAt(ip, {"log_check", "log_lock"})
\* the place of ip in the dict order (0: not a key)
PlaceOf(order, ip) ==
    IF ip \in Range(order) THEN CHOOSE i \in 1..Len(order) : order[i] = ip ELSE 0

\* C21: whenever get_usage_stats can take the lock, what it returns is the
\* number of addresses recorded, the total number of recorded successes and
\* the distribution; most_used_ip is an address of maximal count with that
\* count, every other address of the same count was recorded after it, and
\* there is none when nothing was recorded.
C21_UsageStats ==
    LockFree(lock) =>
        LET stats == GetUsageStats(ip_usage, ip_order)
            most == stats.most_used_ip
        IN  /\ stats.total_unique_ips =
                   Cardinality({ip \in Identities : Recorded(ip) > 0})
            /\ stats.total_successful_scrapes = SumOver(log_calls, Identities)
                   - Cardinality({w \in Threads :
                                     tracker_pc[w] \in {"log_check", "log_lock"}
                                     /\ call_args[w].ip_address # NoIP})
            /\ \A ip \in Identities : stats.ip_usage_distribution[ip] = Recorded(ip)
            /\ IF \A ip \in Identities : Recorded(ip) = 0
               THEN most = NoMostUsed
               ELSE /\ most.ip \in Identities
                    /\ most.count = Recorded(most.ip)
                    /\ \A ip \in Identities \ {most.ip} :
                         \/ Recorded(ip) < most.count
                         \/ /\ Recorded(ip) = most.count
                            /\ PlaceOf(ip_order, most.ip) < PlaceOf(ip_order, ip)

C21_Witness ==
    /\ LockFree(lock) /\ NoLogUnderWay
    /\ Len(ip_order) = 3
    /\ ip_order[1] # "1.1.1.1"
    /\ \A ip \in Identities : ip_usage[ip] = 1
    /\ GetUsageStats(ip_usage, ip_order).most_used_ip = [ip |-> ip_order[1], count |-> 1]

\* this run has given task n up: max_retries failed attempts and no owner
GivenUp(n) ==
    /\ n \in DOMAIN results
    /\ Len(results[n]) = max_retries
    /\ \A i \in 1..Len(results[n]) : ~results[n][i].success
    /\ n \in InList(progress_data, "failed_exhausted")
    /\ ~Owned(n)

\* C22: the step in which a thread gives a task up (status failed_exhausted)
\* leaves the thread at the queue, ready to take the next task, and leaves
\* the run going; and a fresh run in which a task was given up ends with
\* every seeded task in success or in failed_exhausted.
C22_ExhaustionDoesNotAbort ==
    [][/\ \A w \in Threads :
            (pc[w] = "loop" /\ cur[w] \notin successful_researchers
               /\ RetriesExhausted(attempt_num[w] + 1) /\ pc'[w] # "loop")
              => /\ pc'[w] = "get"
                 /\ cpc' = cpc
                 /\ researcher_queue' = researcher_queue
                 /\ cur[w] \in InList(progress_data', "failed_exhausted")
       /\ (~continue_mode /\ cpc' = "done" /\ \E n \in Researchers : GivenUp(n)')
              => \A n \in Range(researchers_data') :
                     \/ n \in InList(progress_data', "success")
                     \/ n \in InList(progress_data', "failed_exhausted")]_vars

C22_Witness ==
    /\ ~continue_mode /\ cpc = "done"
    /\ \E n, m \in Researchers :
         /\ n # m
         /\ GivenUp(n)
         /\ m \in InList(progress_data, "success")
         /\ results[m][1].thread_id = results[n][1].thread_id

\* the record that thread w appends for an attempt that raised
RaisedRecord(w) ==
    [attempt |-> attempt_num[w], success |-> FALSE, error |-> RaisedError,
     thread_id |-> w]
\* the last attempt of thread w on its task raised
LastRaised(w) ==
    /\ cur[w] \in DOMAIN results
    /\ results[cur[w]] # <<>>
    /\ results[cur[w]][Len(results[cur[w]])].error = RaisedError

\* C23: an attempt that raises, in the identity step of the gate or in the
\* scrape, returns a failed result with the text of the exception; the
\* thread appends exactly one failed record with that text, writes
\* failed_retrying, returns to the head of the retry loop and there retries
\* or, the retries used up, writes failed_exhausted and goes to the queue:
\* the thread never ends because of the exception.
C23_RaisedErrorIsFailedAttempt ==
    [][\A w \in Threads :
        /\ (pc[w] \in {"gate", "scrape"} /\ pc'[w] # pc[w]
               /\ result'[w].error = RaisedError)
              => /\ pc'[w] = "record" /\ ~result'[w].success
                 /\ results' = results /\ progress_data' = progress_data
        /\ (pc[w] = "record" /\ result[w].error = RaisedError /\ pc'[w] # "record")
              => /\ results'[cur[w]] = Append(results[cur[w]], RaisedRecord(w))
                 /\ \A n \in DOMAIN results \ {cur[w]} : results'[n] = results[n]
                 /\ pc'[w] = "status_retry"
        /\ (pc[w] = "status_retry" /\ LastRaised(w) /\ pc'[w] # "status_retry")
              => /\ pc'[w] = "loop" /\ cur'[w] = cur[w]
                 /\ cur[w] \in InList(progress_data', "failed_retrying")
        /\ (pc[w] = "loop" /\ LastRaised(w) /\ pc'[w] # "loop")
              => IF attempt_num[w] >= max_retries
                 THEN /\ pc'[w] = "get"
                      /\ cur[w] \in InList(progress_data', "failed_exhausted")
                 ELSE /\ pc'[w] = "gate" /\ cur'[w] = cur[w]
                      /\ attempt_num'[w] = attempt_num[w] + 1]_vars

\* a task whose first attempt raised and whose retry succeeded, next to a
\* task given up after attempts that all raised, both taken by one thread
C23_Witness ==
    \E n, m \in Researchers :
        /\ n # m /\ n \in DOMAIN results /\ m \in DOMAIN results
        /\ Len(results[n]) = 2
        /\ results[n][1].error = RaisedError /\ results[n][2].success
        /\ n \in InList(progress_data, "success")
        /\ Len(results[m]) = max_retries
        /\ \A i \in 1..max_retries : results[m][i].error = RaisedError
        /\ m \in InList(progress_data, "failed_exhausted")
        /\ results[m][1].thread_id = results[n][1].thread_id

\* C24: when Tor is not reachable and cannot be started, the constructor
\* fails (RuntimeError, the process ends with an error) and the run never
\* begins: no researcher is read or enqueued, no worker thread is started,
\* no attempt is made and nothing is written.
C24_NoTorNoRun ==
    tor = "unavailable" =>
        /\ cpc \in {"construct", "crashed"}
        /\ cpc = "crashed" => (exit_reason = "tor" /\ ExitStatus(cpc) = ErrorExitCode)
        /\ researchers_data = <<>> /\ researcher_queue = <<>>
        /\ \A w \in Threads : pc[w] = "idle" /\ attempt_num[w] = 0
        /\ results = <<>> /\ successful_researchers = {}
        /\ progress_file = existing_progress

C24_Witness == tor = "unavailable" /\ cpc = "crashed" /\ exit_reason = "tor"

\* task n of this run has a successful attempt
ReachedSuccess(n) ==
    n \in DOMAIN results /\ \E i \in 1..Len(results[n]) : results[n][i].success

\* C25: the final summary, logged at the end of a fresh or resumed run,
\* counts as successful the tasks of this run that reached success, as
\* exhausted the tasks of this run that ended in failed_exhausted, the two
\* add up to its total, and its total of attempts is the number of attempt
\* records of the run.
C25_SummaryCounts ==
    [][(cpc = "final" /\ cpc' = "done") =>
        LET summary == FinalSummary(results, successful_researchers)
            tasks == Range(researchers_data)
        IN  /\ summary.successful_count
                  = Cardinality({n \in tasks : ReachedSuccess(n)})
            /\ summary.exhausted_count
                  = Cardinality({n \in tasks :
                        ~ReachedSuccess(n)
                        /\ n \in InList(progress_data, "failed_exhausted")})
            /\ summary.successful_count + summary.exhausted_count
                  = summary.total_researchers
            /\ summary.total_attempts
                  = TotalAttempts(results, DOMAIN results)]_vars

\* the rows of the page that are papers (they have a title link)
PaperRows == {i \in 1..Len(RowsTaken(paper_rows)) : paper_rows[i] # "no_link"}

\* C26: when no visit of a paper page returns a page, parse_author_profile
\* returns one entry for every paper row of the page (the first 50), each
\* with the description "Description not available", and returns None only
\* for a page without paper rows.
C26_AllFetchesFail ==
    (ppc = "returned" /\ pages_fetched = 0) =>
        IF PaperRows = {}
        THEN parse_result.kind = "None"
        ELSE /\ parse_result.kind = "list"
             /\ Len(parse_result.papers) = Cardinality(PaperRows)
             /\ \A k \in 1..Len(parse_result.papers) :
                    parse_result.papers[k].description = DescriptionNotAvailable

\* C27: for a paper with a URL the page is visited at most max_retries
\* times and never again after a visit returned a page; get_new_identity is
\* called once after each visit that failed and not otherwise; a paper whose
\* page came gets the description extracted from it, and sets the counter
\* of consecutive failures to 0.
C27_FetchRetries ==
    [][/\ paper_attempt' <= max_retries
       /\ (ppc = "fetch" /\ paper_attempt' = paper_attempt + 1)
            => /\ ~fetched
               /\ rotations' = IF fetched' THEN rotations ELSE rotations + 1
               /\ fetched' => description' \in
                                 {ExtractPaperDescription(c) : c \in PaperPages}
       /\ (ppc = "fetch" /\ ppc' = "after")
            => /\ rotations = IF fetched THEN paper_attempt - 1 ELSE paper_attempt
               /\ ~fetched => paper_attempt = max_retries
       /\ (ppc = "after" /\ fetched)
            => /\ consecutive_failures' = 0
               /\ papers' = Append(papers, PaperEntry(row_i, description))]_vars

\* a paper whose page failed once and then came, after a paper that failed
C27_Witness ==
    /\ ppc = "row" /\ row_i = 3 /\ consecutive_failures = 0
    /\ fetched /\ paper_attempt = 2 /\ rotations = 1
    /\ Len(papers) = 2
    /\ papers[1].description = DescriptionNotAvailable
    /\ papers[2].description = "the description of the page"

\* C28: once the max_retries-th attempt of a task has failed and the thread
\* has dealt with the failure, the task is not in failed_retrying, neither
\* in the progress data nor in the checkpoint file: the last failure leads
\* to failed_exhausted directly.
C28_LastFailureNotRetrying ==
    \A w \in Threads :
        (pc[w] = "loop" /\ attempt_num[w] >= max_retries
           /\ cur[w] \notin successful_researchers)
          => /\ cur[w] \notin InList(progress_data, "failed_retrying")
             /\ progress_file.kind = "ok"
                  => cur[w] \notin InList(progress_file.data, "failed_retrying")

\* the threads that hold task n
Owners(n) == {w \in Threads : cur[w] = n}

\* C29: a task is taken from the queue by one thread only: a task still in
\* the queue has never been taken, no two threads hold the same task, all
\* the attempt records of a task are of the one thread that took it, a
\* thread has at most one attempt under way, it lets go of its task only
\* when the task is in success or in failed_exhausted, and at the end of a
\* fresh run every seeded task has been taken.
C29_OneOwner ==
    [][/\ \A n \in Researchers :
            /\ Cardinality(Owners(n))' <= 1
            /\ Occurrences(researcher_queue, n)' <= 1
            /\ Range(researcher_queue') \cap DOMAIN results' = {}
            /\ n \in DOMAIN results' =>
                  \A i \in 1..Len(results'[n]) :
                     /\ results'[n][i].attempt = i
                     /\ results'[n][i].thread_id = results'[n][1].thread_id
                     /\ Owners(n)' \subseteq {results'[n][1].thread_id}
       /\ \A w \in Threads :
            (cur[w] # NoName /\ cur'[w] # cur[w])
               => \/ cur[w] \in InList(progress_data', "success")
                  \/ cur[w] \in InList(progress_data', "failed_exhausted")
       /\ (~continue_mode /\ cpc' = "done")
            => Range(researchers_data') \subseteq DOMAIN results']_vars

\* two threads at work, each on its own task, one of them at a retry
C29_Witness ==
    /\ \A w \in Threads : pc[w] = "scrape"
    /\ cur[1] # cur[2]
    /\ attempt_num[1] = 2 /\ attempt_num[2] = 1
    /\ Len(results[cur[1]]) = 1 /\ results[cur[2]] = <<>>

\* the address that thread w has read is at or over the limit
OverLimit(w) ==
    /\ observed_ip[w] \in IPs
    /\ ip_usage[observed_ip[w]] >= max_requests_per_ip

C31_BackoffCapped ==
    [][\A w \in Threads :
        (ip_retry_attempt'[w] = ip_retry_attempt[w] + 1) =>
            LET k == ip_retry_attempt'[w] IN
            /\ backoff'[w] = IF k <= 5 THEN 2 ^ k ELSE 60
            /\ backoff'[w] <= 60
            /\ backoff'[w] >= backoff[w]
            /\ (k > 1 /\ 2 * backoff[w] <= 60) => backoff'[w] = 2 * backoff[w]]_vars

\* the two threads in their gates, one after its seventh forced rotation
\* (the ceiling reached), the other after its third
C31_Witness ==
    /\ \A w \in Threads : pc[w] = "gate"
    /\ ip_retry_attempt[1] = 7 /\ backoff[1] = 60
    /\ ip_retry_attempt[2] = 3 /\ backoff[2] = 8

\* C32: the step that starts attempt k of a task requests no identity and
\* does not wait when k = 1; when k > 1 it requests a new identity once and
\* waits RETRY_WAIT_SECONDS, whether the request succeeded or raised; in
\* both cases the thread goes on to the gate of attempt k, on the same task.
C32_RotateAndWaitBeforeRetry ==
    [][\A w \in Threads :
        /\ (attempt_num'[w] = attempt_num[w] + 1) =>
              /\ pc'[w] = "gate" /\ cur'[w] = cur[w]
              /\ IF attempt_num'[w] = 1
                 THEN retry_step'[w] = [rotation |-> "none", wait |-> 0]
                 ELSE /\ retry_step'[w].rotation \in {"ok", "failed"}
                      /\ retry_step'[w].wait = RETRY_WAIT_SECONDS
        /\ (pc[w] = "record" /\ pc'[w] # "record") =>
              /\ retry_step'[w] = retry_step[w]
              /\ results'[cur[w]][Len(results'[cur[w]])].attempt = attempt_num[w]
              /\ Len(results'[cur[w]]) = attempt_num[w]]_vars

\* a task whose second attempt ran, and succeeded, after an identity request
\* that raised
C32_Witness ==
    \E w \in Threads :
        /\ pc[w] = "add_success" /\ attempt_num[w] = 2
        /\ retry_step[w] = [rotation |-> "failed", wait |-> RETRY_WAIT_SECONDS]
        /\ Len(results[cur[w]]) = 2 /\ results[cur[w]][2].success

\* the attempt records of a task in this run
AttemptsOf(n) == IF n \in DOMAIN results THEN results[n] ELSE <<>>
\* the steps of a thread inside an attempt
AttemptSteps == {"gate", "gate_check", "scrape", "record"}
\* a step leaves task n, which is in partition s, where it is: it stays
\* in s, it gets no attempt record and no thread is inside an attempt of it
StaysIn(n, s) ==
    (n \in Range(progress_data[s])) =>
        /\ n \in Range(progress_data'[s])
        /\ AttemptsOf(n)' = AttemptsOf(n)
        /\ \A w \in Threads : cur'[w] = n => pc'[w] \notin AttemptSteps
\* the names the run found in FailedExhausted in the checkpoint it loaded
StartedExhausted ==
    IF continue_mode THEN Range(LoadProgressFromLog(existing_progress).failed_exhausted)
    ELSE {}

\* C33 as stated: whatever run it is, a task that is in Success or in
\* FailedExhausted stays in that partition and is not attempted.  Refuted
\* by a resumed run whose checkpoint has a task in FailedExhausted.
C33_TerminalInAnyRun ==
    [][\A n \in Researchers :
          StaysIn(n, "success") /\ StaysIn(n, "failed_exhausted")]_vars

\* C33, amended: a task in Success, and a task in FailedExhausted that the
\* run did not find there in its checkpoint, stays in its partition in
\* every later step, gets no further attempt record and no thread is
\* inside an attempt of it.
C33_TerminalOnceReached ==
    [][\A n \in Researchers :
          /\ StaysIn(n, "success")
          /\ n \notin StartedExhausted => StaysIn(n, "failed_exhausted")]_vars

\* a run, resumed from a checkpoint without successes, that ended with one
\* task exhausted in it and the other successful after the first had been
\* given up
C33_Witness ==
    /\ continue_mode /\ StartedExhausted = {}
    /\ \A w \in Threads : pc[w] = "exited"
    /\ Range(progress_data.failed_exhausted) = {csv_names[1]}
    /\ Len(AttemptsOf(csv_names[1])) = max_retries
    /\ Range(progress_data.success) = {csv_names[2]}
    /\ Len(AttemptsOf(csv_names[2])) = max_retries
    /\ last_update.name = csv_names[2]

\* the run is over: every task is in Success or FailedExhausted, every
\* worker thread has ended and the coordinator has ended the session with
\* the queue empty
RunOver ==
    /\ \A n \in Researchers :
          n \in Range(progress_data.success) \cup Range(progress_data.failed_exhausted)
    /\ \A w \in Threads : pc[w] = "exited"
    /\ cpc = "done" /\ researcher_queue = <<>> /\ discarded = {}

\* C34: in a fresh run under weak fairness of the worker threads and of the
\* coordinator, eventually and from then on every task is in Success or
\* FailedExhausted, every worker thread has ended and the coordinator has
\* ended the session with the queue empty; and a worker thread ends only
\* in a step that finds the queue empty.
C34_RunTerminates ==
    /\ <>[]RunOver
    /\ [][\A w \in Threads :
            (pc[w] # "exited" /\ pc'[w] = "exited") =>
                (pc[w] = "get" /\ researcher_queue = <<>>)]_vars

\* the end of a fresh run in which the first task succeeded at its last
\* allowed attempt and the second was given up
C34_Witness ==
    /\ ~continue_mode /\ RunOver
    /\ progress_data.success = <<csv_names[1]>>
    /\ Len(AttemptsOf(csv_names[1])) = max_retries
    /\ progress_data.failed_exhausted = <<csv_names[2]>>
    /\ exit_reason = "all_dead"

\* a step of a worker thread whose checkpoint write failed
FailedTransition ==
    /\ write_failures' = write_failures + 1
    /\ cpc' = cpc
\* the thread that made the step
Stepped(w) == pc'[w] # pc[w]

\* C35: a status transition whose checkpoint write fails still updates the
\* partitions and the counts in memory, lets its thread go on (to the next
\* turn of the retry loop, to the ledger call or to the next task) and
\* leaves scraping_progress.json with the content it had before.
C35_FailedWriteKeepsCheckpoint ==
    [][FailedTransition =>
         /\ progress_data' = UpdatedProgress(progress_data, last_update'.name,
                                             last_update'.status)
         /\ progress_data'.counts = CountsOf(progress_data')
         /\ \E w \in Threads :
               Stepped(w) /\ pc'[w] \in {"loop", "log_ip", "get"}
         /\ progress_file' = progress_file]_vars

\* the lists of pd hold every task exactly once
EachOnce(pd) ==
    \A n \in Researchers :
        Occurrences(pd.pending, n) + Occurrences(pd.success, n)
          + Occurrences(pd.failed_retrying, n)
          + Occurrences(pd.failed_exhausted, n) = 1

\* C36: in every state of a run in which progress_lock is free (outside
\* update_researcher_status), each task is once in the list that its own
\* latest status call named and in no other list, whatever calls the other
\* threads made in between; the stored counts are the lengths of the four
\* lists; a readable checkpoint file holds every task once with counts that
\* are the lengths of its lists, and is the in-memory data when the latest
\* write succeeded.
C36_Serializable ==
    (InRun /\ progress_lock = NoHolder) =>
        /\ \A n \in Researchers : \A i \in 1..Len(StatusLists) :
              Occurrences(progress_data[StatusLists[i]], n) =
                  IF StatusLists[i] = requested[n] THEN 1 ELSE 0
        /\ progress_data.counts = CountsOf(progress_data)
        /\ progress_file.kind = "ok" =>
              /\ EachOnce(progress_file.data)
              /\ progress_file.data.counts = CountsOf(progress_file.data)
              /\ last_update.write_ok => progress_file.data = progress_data

\* both threads have made status calls that the other's calls came between:
\* the first task went to failed_retrying and then to success, the second
\* to failed_retrying in between and is being retried
C36_Witness ==
    /\ InRun /\ progress_lock = NoHolder
    /\ progress_data.success = <<csv_names[1]>>
    /\ progress_data.failed_retrying = <<csv_names[2]>>
    /\ Len(AttemptsOf(csv_names[1])) = 2
    /\ last_update = [name |-> csv_names[1], status |-> "success", write_ok |-> TRUE]
    /\ \E w1, w2 \in Threads :
          /\ w1 # w2 /\ cur[w1] = csv_names[1] /\ cur[w2] = csv_names[2]
          /\ pc[w2] = "status_retry" /\ attempt_num[w2] = 2

\* the locks thread c holds
Held(c) == {l \in LockNames : lock_holder[l] = c}
\* thread c is at a with whose lock another thread, or c itself, holds
WaitsFor(c, l) ==
    /\ ~lock_leaving[c]
    /\ lock_depth[c] < Len(PlaceAt(c).locks)
    /\ l = PlaceAt(c).locks[lock_depth[c] + 1]
    /\ lock_holder[l] # NoHolder
\* the threads of set S each wait for a lock that one of them holds
Deadlocked(S) ==
    /\ S # {}
    /\ \A c \in S : \E l \in LockNames : WaitsFor(c, l) /\ lock_holder[l] \in S
\* an order of the locks: a lock is taken only while locks before it are held
LockOrder == <<"queue_lock", "results_lock", "progress_lock", "print_lock", "lock">>
Rank(l) == CHOOSE i \in 1..Len(LockOrder) : LockOrder[i] = l

\* C37: in no reachable state does a set of threads wait for locks that its
\* own members hold; a thread that enters a with while it holds other locks
\* holds only locks that come before the new one in one fixed order
\* (queue_lock, then print_lock, then the ledger lock; results_lock and
\* progress_lock are taken with no other lock held and none inside them);
\* and a thread that blocks in queue.get, time.sleep or join holds no lock.
C37_DeadlockFree ==
    /\ \A S \in SUBSET Callers : ~Deadlocked(S)
    /\ \A c \in Callers :
         /\ (~lock_leaving[c] /\ lock_depth[c] < Len(PlaceAt(c).locks)) =>
               \A l \in Held(c) :
                   Rank(l) < Rank(PlaceAt(c).locks[lock_depth[c] + 1])
         /\ PlaceAt(c).wait => Held(c) = {}
         /\ {"results_lock", "progress_lock"} \cap Held(c) # {} =>
               Cardinality(Held(c)) = 1

\* a chain of waits that is not a cycle: a worker thread that found the queue
\* empty holds queue_lock and waits for print_lock, which the main thread
\* holds while it waits for the ledger lock, which another worker thread
\* holds inside log_successful_scrape
C37_Witness ==
    \E w1, w2 \in Threads :
        /\ w1 # w2
        /\ lock_at[w1] = "queue_empty" /\ WaitsFor(w1, "print_lock")
        /\ Held(w1) = {"queue_lock"}
        /\ lock_at[MainThread] = "save" /\ WaitsFor(MainThread, "lock")
        /\ Held(MainThread) = {"print_lock"}
        /\ lock_at[w2] = "log_scrape" /\ Held(w2) = {"lock"}

\* the ledger as a reader outside the lock sees it
LedgerView == <<ip_usage, ip_order, ip_details, tracker_file, lock>>

\* C38: in a ledger that started empty, whenever no caller holds the lock,
\* the addresses with a counter (the keys of ip_usage) are those with details,
\* and for each of them the counter, total_usage and the length of
\* usage_history are one number, at least 1; an address without a counter
\* has no details; and a log_successful_scrape call without an address
\* returns at its first test and leaves the ledger and its file as they are.
C38_LedgerConsistent ==
    /\ [](lock = NoHolder =>
            \A ip \in Identities :
                /\ ip_usage[ip] = ip_details[ip].total_usage
                /\ ip_usage[ip] = Len(ip_details[ip].usage_history)
                /\ ip \in Range(ip_order) <=> ip_details[ip] # NoDetails
                /\ ip \in Range(ip_order) <=> ip_usage[ip] >= 1)
    /\ [][\A w \in Threads :
            (tracker_pc[w] # "idle" /\ call_args[w].ip_address = NoIP
               /\ tracker_pc'[w] # tracker_pc[w]) =>
                 /\ tracker_pc'[w] = "idle"
                 /\ LedgerView' = LedgerView]_vars

\* two addresses are recorded, one of them twice, no caller holds the lock
\* and a call without an address is at its first test
C38_Witness ==
    /\ lock = NoHolder
    /\ ip_usage[AllIPs[1]] = 2 /\ Len(ip_details[AllIPs[1]].usage_history) = 2
    /\ ip_usage[AllIPs[2]] = 1 /\ ip_order = <<AllIPs[2], AllIPs[1]>>
    /\ \E w \in Threads :
          tracker_pc[w] = "log_check" /\ call_args[w].ip_address = NoIP

\* C39: while the main thread is in the run, where print_current_progress is
\* called every PROGRESS_UPDATE_INTERVAL_SECONDS and once more at the end,
\* total_researchers is greater than 0, and the run never ends in the
\* ZeroDivisionError of the report.  Refuted by a run resumed from a log
\* directory whose checkpoint is missing or unreadable.
C39_ReportNeverFails ==
    /\ InRun => progress_data.total_researchers > 0
    /\ cpc # "crashed"

\* C40: the ledger file is written in one step only, the save that follows
\* the joins and the drain of a polling loop left by completion or by the
\* end of all threads, with the queue empty; and from a successful save to
\* the end of the run the file holds every success the ledger has recorded.
\* Refuted by a resumed run whose loop is left while a task is still being
\* attempted: its success is recorded after the save.
C40_LedgerFlushedOnce ==
    /\ [][tracker_file' # tracker_file =>
            /\ cpc = "save" /\ cpc' = "final"
            /\ exit_reason \in {"complete", "all_dead"}
            /\ researcher_queue = <<>>]_vars
    /\ []((cpc \in {"final", "done"} /\ tracker_file.kind = "ok") =>
            /\ tracker_file.data.ip_usage = ip_usage
            /\ tracker_file.data.ip_details = ip_details)

====
